---- MODULE Spec2Model ----
(***************************************************************************)
(* Model of pyiges/geometry.py: the token parser parse_float and the       *)
(* per-entity decoders (_add_parameters).  A token is a sequence of        *)
(* one-character strings; a token list ("parameters") is a sequence of     *)
(* tokens whose element 0 (Python index) is the entity type code.          *)
(* A decoded real number is an exact decimal [m, e] = m * 10^e, kept       *)
(* normalised so that equal numbers are equal records.                     *)
(***************************************************************************)
EXTENDS Integers, Sequences, FiniteSets, TLC

\* kind: the decoder that runs;  d: the directory-entry metadata (self.d);
\* parameters: the token list;  pc: "ready" before the decode, "done" after;
\* err: the exception the decode raised, "none" if it returned;
\* ent: the attributes of the decoded entity
VARIABLES kind, d, parameters, pc, err, ent

\* The loaded model (self.iges of every entity).
\* file: the records of the file, in file order, each with its directory
\* entry pointer de, its metadata d and its token list parameters;
\* entities: per record, the entity decoded from it (kind "raw" before);
\* phase: "decoding" while records are decoded, "built" afterwards;
\* call: the last accessor call on an entity and what it returned or raised
VARIABLES file, entities, phase, call

\* The local variables of a decoder that is run statement by statement.
VARIABLE frame

gvars == <<file, entities, phase, call, frame>>

vars == <<kind, d, parameters, pc, err, ent, file, entities, phase, call, frame>>

(***************************************************************************)
(* Bounds of the model.                                                    *)
(***************************************************************************)
\* longest token enumerated character by character
MaxTokLen == 4
\* largest upper index K of a B-spline (curve and surface)
MaxK == 1
\* largest degree M of a B-spline (curve and surface)
MaxM == 1
\* largest count of a count-prefixed array
MaxCount == 2
\* a token list is at most this much shorter than its well-formed length
MaxShort == 2
\* a token list has at most this many tokens beyond its well-formed length
MaxExtra == 3

(***************************************************************************)
(* Characters and tokens.                                                  *)
(***************************************************************************)
Digits == <<"0", "1", "2", "3", "4", "5", "6", "7", "8", "9">>

DigitSet == {"0", "1", "2", "3", "4", "5", "6", "7", "8", "9"}

IsDigit(c) == c \in DigitSet

DigitVal(c) ==
    CASE c = "0" -> 0 [] c = "1" -> 1 [] c = "2" -> 2 [] c = "3" -> 3 [] c = "4" -> 4
      [] c = "5" -> 5 [] c = "6" -> 6 [] c = "7" -> 7 [] c = "8" -> 8 [] c = "9" -> 9

IsSign(c) == c \in {"+", "-"}

IsExpMark(c) == c \in {"e", "E"}

\* str.lower() on the characters the model uses
LowerChar(c) == CASE c = "D" -> "d" [] c = "E" -> "e" [] c = "X" -> "x" [] OTHER -> c

lower(s) == [i \in 1..Len(s) |-> LowerChar(s[i])]

\* str.replace(a, b) for one-character a and b: every occurrence is replaced
replace(s, a, b) == [i \in 1..Len(s) |-> IF s[i] = a THEN b ELSE s[i]]

RECURSIVE Norm(_, _)
\* the normal form of the decimal m * 10^e
Norm(m, e) ==
    IF m = 0 THEN [m |-> 0, e |-> 0]
    ELSE IF m % 10 = 0 THEN Norm(m \div 10, e + 1)
    ELSE [m |-> m, e |-> e]

\* the real number of the integer n
Num(n) == Norm(n, 0)

(***************************************************************************)
(* float(str) and int(str) of the Python library, as scanners of the       *)
(* literal.  float accepts  [sign] mantissa [(e|E) [sign] digits]  where   *)
(* the mantissa is digits, digits. , .digits or digits.digits ; int        *)
(* accepts  [sign] digits.  (Blanks, underscores, inf and nan, which       *)
(* Python also accepts, are not among the model's characters.)             *)
(* The scanner state q is the part of the literal read so far; a carries   *)
(* the sign sg, the mantissa digits m, the number fl of fraction digits,   *)
(* the exponent sign es and the exponent digits ex.                        *)
(***************************************************************************)
FloatStep(q, a, c) ==
    CASE q = "start" /\ IsSign(c)   -> [q |-> "sign", a |-> [a EXCEPT !.sg = IF c = "-" THEN -1 ELSE 1]]
      [] q \in {"start", "sign", "int"} /\ IsDigit(c)
                                    -> [q |-> "int", a |-> [a EXCEPT !.m = 10 * a.m + DigitVal(c)]]
      [] q \in {"start", "sign"} /\ c = "." -> [q |-> "dot", a |-> a]
      [] q = "int" /\ c = "."       -> [q |-> "frac", a |-> a]
      [] q \in {"dot", "frac"} /\ IsDigit(c)
                                    -> [q |-> "frac",
                                        a |-> [a EXCEPT !.m = 10 * a.m + DigitVal(c), !.fl = a.fl + 1]]
      [] q \in {"int", "frac"} /\ IsExpMark(c) -> [q |-> "e", a |-> a]
      [] q = "e" /\ IsSign(c)       -> [q |-> "esign", a |-> [a EXCEPT !.es = IF c = "-" THEN -1 ELSE 1]]
      [] q \in {"e", "esign", "exp"} /\ IsDigit(c)
                                    -> [q |-> "exp", a |-> [a EXCEPT !.ex = 10 * a.ex + DigitVal(c)]]
      [] OTHER                      -> [q |-> "reject", a |-> a]

RECURSIVE FloatScan(_, _, _, _)
FloatScan(s, i, q, a) ==
    IF q = "reject" THEN [q |-> q, a |-> a]
    ELSE IF i > Len(s) THEN [q |-> q, a |-> a]
    ELSE LET n == FloatStep(q, a, s[i]) IN FloatScan(s, i + 1, n.q, n.a)

\* the value of a scanned token: accepted in the states int, frac and exp
FloatValue(r) ==
    IF r.q \in {"int", "frac", "exp"}
    THEN [err |-> "none", val |-> Norm(r.a.sg * r.a.m, r.a.es * r.a.ex - r.a.fl)]
    ELSE [err |-> "ValueError", val |-> Num(0)]

\* float(str): a value or ValueError
PyFloat(s) ==
    FloatValue(FloatScan(s, 1, "start", [sg |-> 1, m |-> 0, fl |-> 0, es |-> 1, ex |-> 0]))

\* float(str) accepts s
PyFloatOk(s) == PyFloat(s).err = "none"

IntStep(q, a, c) ==
    CASE q = "start" /\ IsSign(c) -> [q |-> "sign", a |-> [a EXCEPT !.sg = IF c = "-" THEN -1 ELSE 1]]
      [] q \in {"start", "sign", "int"} /\ IsDigit(c)
                                  -> [q |-> "int", a |-> [a EXCEPT !.m = 10 * a.m + DigitVal(c)]]
      [] OTHER                    -> [q |-> "reject", a |-> a]

RECURSIVE IntScan(_, _, _, _)
IntScan(s, i, q, a) ==
    IF q = "reject" THEN [q |-> q, a |-> a]
    ELSE IF i > Len(s) THEN [q |-> q, a |-> a]
    ELSE LET n == IntStep(q, a, s[i]) IN IntScan(s, i + 1, n.q, n.a)

\* the value of a scanned token: accepted in the state int
IntValue(r) ==
    IF r.q = "int" THEN [err |-> "none", val |-> r.a.sg * r.a.m]
    ELSE [err |-> "ValueError", val |-> 0]

\* int(str): a value or ValueError
PyInt(s) == IntValue(IntScan(s, 1, "start", [sg |-> 1, m |-> 0]))

\* the result of a float(...) call inside parse_float, tagged with the
\* branch of the try statement that made it
Tagged(r, via) == [err |-> r.err, val |-> r.val, via |-> via]

\* a plausible slip: D replaced by E without lower-casing first
parse_float_CaseSensitive(str_value) ==
    IF PyFloat(str_value).err = "none" THEN Tagged(PyFloat(str_value), "try")
    ELSE Tagged(PyFloat(replace(str_value, "d", "e")), "except")

\* a plausible slip: an unparsable token is swallowed and read as 0.0
parse_float_Swallow(str_value) ==
    IF PyFloat(str_value).err = "none" THEN Tagged(PyFloat(str_value), "try")
    ELSE [err |-> "none",
          val |-> PyFloat(replace(lower(str_value), "d", "e")).val,
          via |-> "except"]

\* parse_float: try float(str_value); except ValueError:
\* float(str_value.lower().replace("d", "e")), whose ValueError propagates
parse_float(str_value) ==
    IF PyFloat(str_value).err = "none" THEN Tagged(PyFloat(str_value), "try")
    ELSE Tagged(PyFloat(replace(lower(str_value), "d", "e")), "except")

(***************************************************************************)
(* Tokens the model draws.                                                 *)
(***************************************************************************)
Alphabet == {"1", ".", "-", "E", "e", "D", "d"}

EnumTokens == UNION {[1..n -> Alphabet] : n \in 0..MaxTokLen}

LegacyTok == <<"1", ".", "2", "D", "3">>

StandardTok == <<"1", ".", "2", "E", "3">>

BadTok == <<"x">>

ExampleTokens ==
    { LegacyTok,
      StandardTok,
      <<"1", ".", "2", "d", "3">>,
      <<"1", ".", "2", "e", "3">>,
      <<"1", "2", "0", "0", ".", "0">>,
      <<"+", "1", "2", "e", "+", "2">>,
      <<"1", "D", "2", "D", "3">>,
      BadTok }

Tokens == EnumTokens \cup ExampleTokens

NoEnt == [none |-> TRUE]

\* no decoder is run statement by statement
NoFrame == [none |-> TRUE]

(***************************************************************************)
(* Python lists: indexing, slicing, range.                                 *)
(***************************************************************************)
Max(a, b) == IF a >= b THEN a ELSE b

Min(a, b) == IF a <= b THEN a ELSE b

\* a negative Python index counts from the end
Wrap(p, i) == IF i < 0 THEN i + Len(p) ELSE i

\* p[i] does not raise IndexError
InRange(p, i) == Wrap(p, i) >= 0 /\ Wrap(p, i) < Len(p)

\* p[i], for an index in range
At(p, i) == p[Wrap(p, i) + 1]

\* a slice bound, clipped to the list as Python does
Clip(p, x) == IF x < 0 THEN Max(0, x + Len(p)) ELSE Min(x, Len(p))

\* p[a:b]: never raises, silently shorter when the list is short
Slice(p, a, b) ==
    IF Clip(p, a) < Clip(p, b) THEN SubSeq(p, Clip(p, a) + 1, Clip(p, b)) ELSE <<>>

\* list(range(a, b))
Range(a, b) == [j \in 1..Max(0, b - a) |-> a + j - 1]

\* list(range(a, b, 3))
Range3(a, b) == [j \in 1..Max(0, (b - a + 2) \div 3) |-> a + 3 * (j - 1)]

\* [False] * n
Falses(n) == [j \in 1..Max(0, n) |-> FALSE]

\* [True] * n
Trues(n) == [j \in 1..Max(0, n) |-> TRUE]

(***************************************************************************)
(* A decoder reads its tokens in program order; the first read that raises *)
(* ends the decode with that exception.  A read is [i: index, c:           *)
(* conversion], the conversion being parse_float, float, int or raw (the   *)
(* token is only indexed).                                                 *)
(***************************************************************************)
Reads(idx, conv) == [j \in 1..Len(idx) |-> [i |-> idx[j], c |-> conv]]

ConvErr(c, tok) ==
    CASE c = "parse_float" -> parse_float(tok).err
      [] c = "float"       -> PyFloat(tok).err
      [] c = "int"         -> PyInt(tok).err
      [] OTHER             -> "none"

ReadErr(p, rd) ==
    IF ~InRange(p, rd.i) THEN "IndexError" ELSE ConvErr(rd.c, At(p, rd.i))

\* the exception of the first read that raises, "none" when none does
FirstErr(p, reads) ==
    LET bad == {j \in 1..Len(reads) : ReadErr(p, reads[j]) # "none"} IN
    IF bad = {} THEN "none"
    ELSE ReadErr(p, reads[CHOOSE j \in bad : \A k \in bad : j <= k])

\* the reads hd, then (reached only when none of them raises) the reads tl
Then(p, hd, tl) == IF FirstErr(p, hd) # "none" THEN hd ELSE hd \o tl

\* parse_float(parameters[i])
PF(p, i) == parse_float(At(p, i)).val

\* int(parameters[i])
INT(p, i) == PyInt(At(p, i)).val

\* float(parameters[i])
FLOAT(p, i) == PyFloat(At(p, i)).val

Result(e, entity) == [err |-> e, ent |-> IF e = "none" THEN entity ELSE NoEnt]

(***************************************************************************)
(* Fixed-arity decoders.  X_reads is the sequence of reads of decoder X in *)
(* program order, X_add_parameters its outcome.                            *)
(***************************************************************************)
Point_reads(p) == Reads(Range(1, 4), "parse_float")

Point_add_parameters(p) ==
    Result(FirstErr(p, Point_reads(p)),
           [parameter_pointers |-> Falses(Len(p)),
            _x |-> PF(p, 1), _y |-> PF(p, 2), _z |-> PF(p, 3)])

Line_reads(p) == Reads(Range(1, 7), "parse_float")

\* a plausible slip: the coordinates read from index 0, the type code
Line_add_parameters_FromZero(p) ==
    Result(FirstErr(p, Reads(Range(0, 6), "parse_float")),
           [parameters |-> p,
            parameter_pointers |-> Falses(Len(p)),
            _x1 |-> PF(p, 0), _y1 |-> PF(p, 1), _z1 |-> PF(p, 2),
            _x2 |-> PF(p, 3), _y2 |-> PF(p, 4), _z2 |-> PF(p, 5)])

Line_add_parameters(p) ==
    Result(FirstErr(p, Line_reads(p)),
           [parameters |-> p,
            parameter_pointers |-> Falses(Len(p)),
            _x1 |-> PF(p, 1), _y1 |-> PF(p, 2), _z1 |-> PF(p, 3),
            _x2 |-> PF(p, 4), _y2 |-> PF(p, 5), _z2 |-> PF(p, 6)])

\* Line.coordinates
Line_coordinates(e) == <<<<e._x1, e._y1, e._z1>>, <<e._x2, e._y2, e._z2>>>>

Transformation_reads(p) == Reads(Range(1, 13), "parse_float")

Transformation_add_parameters(p) ==
    Result(FirstErr(p, Transformation_reads(p)),
           [parameters |-> p,
            parameter_pointers |-> Falses(Len(p)),
            r11 |-> PF(p, 1), r12 |-> PF(p, 2),  r13 |-> PF(p, 3),  t1 |-> PF(p, 4),
            r21 |-> PF(p, 5), r22 |-> PF(p, 6),  r23 |-> PF(p, 7),  t2 |-> PF(p, 8),
            r31 |-> PF(p, 9), r32 |-> PF(p, 10), r33 |-> PF(p, 11), t3 |-> PF(p, 12)])

\* the twelve coefficients are stored as the tokens themselves, unparsed
ConicArc_reads(p) == Reads(Range(1, 13), "raw")

ConicArc_add_parameters(p) ==
    Result(FirstErr(p, ConicArc_reads(p)),
           [parameters |-> p,
            parameter_pointers |-> Falses(Len(p)),
            a |-> At(p, 1),  b |-> At(p, 2),  c |-> At(p, 3),
            d |-> At(p, 4),  e |-> At(p, 5),  f |-> At(p, 6),
            x1 |-> At(p, 7), y1 |-> At(p, 8), z1 |-> At(p, 9),
            x2 |-> At(p, 10), y2 |-> At(p, 11), z2 |-> At(p, 12)])

CircularArc_reads(p) == Reads(Range(1, 8), "parse_float")

\* md is the directory-entry metadata self.d; md.transform is None (<<>>) or a pointer
CircularArc_add_parameters(md, p) ==
    Result(FirstErr(p, CircularArc_reads(p)),
           [parameters |-> p,
            parameter_pointers |-> Falses(Len(p)),
            z |-> PF(p, 1), x |-> PF(p, 2), y |-> PF(p, 3),
            x1 |-> PF(p, 4), y1 |-> PF(p, 5), x2 |-> PF(p, 6), y2 |-> PF(p, 7),
            _transform |-> md.transform])

Curve_On_A_Parametric_Surface_reads(p) ==
    Reads(Range(1, 5), "int") \o Reads(<<5>>, "raw")

\* [False, False, True, True, True, False], then
\* [False] * (len(parameters) - len(self.parameter_pointers))
Curve_On_A_Parametric_Surface_add_parameters(p) ==
    Result(FirstErr(p, Curve_On_A_Parametric_Surface_reads(p)),
           [parameters |-> p,
            parameter_pointers |-> <<FALSE, FALSE, TRUE, TRUE, TRUE, FALSE>> \o Falses(Len(p) - 6),
            how_created |-> INT(p, 1),
            surface_pointer |-> INT(p, 2),
            curve_pointer |-> INT(p, 3),
            mapping |-> INT(p, 4),
            representation |-> At(p, 5)])

(***************************************************************************)
(* The decoders that convert their REAL fields with float().               *)
(***************************************************************************)
Surface_of_Revolution_reads(p) == Reads(Range(1, 3), "int") \o Reads(Range(3, 5), "float")

\* parameter_pointers is the list of five flags whatever the length of p
Surface_of_Revolution_add_parameters(p) ==
    Result(FirstErr(p, Surface_of_Revolution_reads(p)),
           [parameters |-> p,
            parameter_pointers |-> <<FALSE, TRUE, TRUE, FALSE, FALSE>>,
            axis |-> INT(p, 1),
            surface |-> INT(p, 2),
            SA |-> FLOAT(p, 3),
            EA |-> FLOAT(p, 4)])

Tabulated_Cylinder_reads(p) == Reads(<<1>>, "int") \o Reads(Range(2, 5), "float")

Tabulated_Cylinder_add_parameters(p) ==
    Result(FirstErr(p, Tabulated_Cylinder_reads(p)),
           [parameters |-> p,
            parameter_pointers |-> <<FALSE, TRUE, FALSE, FALSE, FALSE>>,
            curve |-> INT(p, 1),
            Lx |-> FLOAT(p, 2), Ly |-> FLOAT(p, 3), Lz |-> FLOAT(p, 4)])

Color_reads(p) == Reads(Range(1, 4), "float")

Color_add_parameters(p) ==
    Result(FirstErr(p, Color_reads(p)),
           [parameters |-> p,
            parameter_pointers |-> Falses(Len(p)),
            RED |-> FLOAT(p, 1), GREEN |-> FLOAT(p, 2), BLUE |-> FLOAT(p, 3)])

Singular_Subgfigure_Instance_reads(p) == Reads(<<1>>, "int") \o Reads(Range(2, 6), "float")

\* the six flags, then [False] * (len(parameters) - len(self.parameter_pointers))
Singular_Subgfigure_Instance_add_parameters(p) ==
    Result(FirstErr(p, Singular_Subgfigure_Instance_reads(p)),
           [parameters |-> p,
            parameter_pointers |->
                <<FALSE, TRUE, FALSE, FALSE, FALSE, FALSE>> \o Falses(Len(p) - 6),
            pointer |-> INT(p, 1),
            X |-> FLOAT(p, 2), Y |-> FLOAT(p, 3), Z |-> FLOAT(p, 4), S |-> FLOAT(p, 5)])

(***************************************************************************)
(* RationalBSplineCurve.                                                   *)
(***************************************************************************)
\* the six integers K, M, prop1..prop4
Curve_header(p) == Reads(Range(1, 7), "int")

\* self.N = 1 + K - M ; self.A = N + 2 * M
Curve_A(K, M) == (1 + K - M) + 2 * M

\* a plausible slip: the knot loop stops one short
Curve_knots_OneShort(K, M) == Range(7, 7 + Curve_A(K, M))

\* for i in range(7, 7 + A + 1): the knot sequence T
Curve_knots(K, M) == Range(7, 7 + Curve_A(K, M) + 1)

\* for i in range(A + 8, A + K + 8): the weights W
Curve_weights(K, M) == Range(Curve_A(K, M) + 8, Curve_A(K, M) + K + 8)

\* for i in range(9 + A + K, 9 + A + 4 * K + 1, 3): the control points
Curve_points(K, M) == Range3(9 + Curve_A(K, M) + K, 9 + Curve_A(K, M) + 4 * K + 1)

\* the tokens i, i + 1, i + 2 of every control point, in reading order
Curve_point_reads(K, M) ==
    [j \in 1..(3 * Len(Curve_points(K, M))) |->
        Curve_points(K, M)[((j - 1) \div 3) + 1] + ((j - 1) % 3)]

\* index of V0; V1 follows it
Curve_V0(K, M) == 12 + Curve_A(K, M) + 4 * K

\* if len(parameters) > 14 + A + 4 * K + 1
Curve_planar(p, K, M) == Len(p) > 14 + Curve_A(K, M) + 4 * K + 1

\* index of XNORM; YNORM and ZNORM follow it
Curve_XNORM(K, M) == 14 + Curve_A(K, M) + 4 * K

Curve_body(p, K, M) ==
    Reads(Curve_knots(K, M), "parse_float")
    \o Reads(Curve_weights(K, M), "parse_float")
    \o Reads(Curve_point_reads(K, M), "parse_float")
    \o Reads(Range(Curve_V0(K, M), Curve_V0(K, M) + 2), "parse_float")
    \o (IF Curve_planar(p, K, M)
        THEN Reads(Range(Curve_XNORM(K, M), Curve_XNORM(K, M) + 3), "parse_float")
        ELSE <<>>)

\* every read of the decode, in program order
RationalBSplineCurve_reads(p) ==
    Then(p, Curve_header(p), Curve_body(p, INT(p, 1), INT(p, 2)))

Curve_fields(p, K, M) ==
    [parameters |-> p,
     parameter_pointers |-> Falses(Len(p)),
     K |-> K, M |-> M,
     prop1 |-> INT(p, 3), prop2 |-> INT(p, 4), prop3 |-> INT(p, 5), prop4 |-> INT(p, 6),
     N |-> 1 + K - M,
     A |-> Curve_A(K, M),
     T |-> [j \in 1..Len(Curve_knots(K, M)) |-> PF(p, Curve_knots(K, M)[j])],
     W |-> [j \in 1..Len(Curve_weights(K, M)) |-> PF(p, Curve_weights(K, M)[j])],
     control_points |->
        [j \in 1..Len(Curve_points(K, M)) |->
            <<PF(p, Curve_points(K, M)[j]),
              PF(p, Curve_points(K, M)[j] + 1),
              PF(p, Curve_points(K, M)[j] + 2)>>],
     V0 |-> PF(p, Curve_V0(K, M)),
     V1 |-> PF(p, Curve_V0(K, M) + 1),
     planar_curve |-> Curve_planar(p, K, M)]

\* XNORM, YNORM, ZNORM exist only on a planar curve
Curve_normal(p, K, M) ==
    [XNORM |-> PF(p, Curve_XNORM(K, M)),
     YNORM |-> PF(p, Curve_XNORM(K, M) + 1),
     ZNORM |-> PF(p, Curve_XNORM(K, M) + 2)]

RationalBSplineCurve_add_parameters(p) ==
    LET e == FirstErr(p, RationalBSplineCurve_reads(p)) IN
    Result(e,
           LET K == INT(p, 1)
               M == INT(p, 2)
           IN  IF Curve_planar(p, K, M)
               THEN Curve_fields(p, K, M) @@ Curve_normal(p, K, M)
               ELSE Curve_fields(p, K, M))

\* curve.weights = self.W + [1]
RationalBSplineCurve_to_geomdl_weights(e) == Append(e.W, Num(1))

(***************************************************************************)
(* RationalBSplineSurface.  Every token of the list is first converted     *)
(* with parse_float into an array of floats; the fields are read from it.  *)
(***************************************************************************)
RECURSIVE Pow10(_)
Pow10(n) == IF n <= 0 THEN 1 ELSE 10 * Pow10(n - 1)

Abs(x) == IF x < 0 THEN -x ELSE x

\* int(float): truncation towards zero
TruncInt(v) ==
    IF v.e >= 0 THEN v.m * Pow10(v.e)
    ELSE (IF v.m < 0 THEN -1 ELSE 1) * (Abs(v.m) \div Pow10(-v.e))

\* [parse_float(param) for param in input_parameters]
Surface_parsed(p) == [j \in 1..Len(p) |-> parse_float(p[j])]

\* a plausible slip: the first knot slice ends one early
Surface_knot1_OneShort(k1, m1) == <<10, 11 + k1 + m1>>

\* parameters[10 : 12 + k1 + m1]
Surface_knot1(k1, m1) == <<10, 12 + k1 + m1>>

\* parameters[12 + k1 + m1 : 14 + k2 + m1 + k1 + m2]
Surface_knot2(k1, k2, m1, m2) == <<12 + k1 + m1, 14 + k2 + m1 + k1 + m2>>

\* st = 14 + k2 + m1 + k1 + m2 ; en = st + (1 + k2) * (1 + k1)
Surface_weights(k1, k2, m1, m2) ==
    <<14 + k2 + m1 + k1 + m2, 14 + k2 + m1 + k1 + m2 + (1 + k2) * (1 + k1)>>

\* st = 14 + k2 + k1 + m1 + m2 + (1 + k2) * (1 + k1) ; en = st + 3 * (1 + k2) * (1 + k1)
Surface_cp(k1, k2, m1, m2) ==
    <<14 + k2 + k1 + m1 + m2 + (1 + k2) * (1 + k1),
      14 + k2 + k1 + m1 + m2 + (1 + k2) * (1 + k1) + 3 * (1 + k2) * (1 + k1)>>

\* array.reshape(-1, 3): rows of three
Reshape3(a) == [j \in 1..(Len(a) \div 3) |-> <<a[3 * j - 2], a[3 * j - 1], a[3 * j]>>]

Surface_fields(p, a, k1, k2, m1, m2) ==
    [parameters |-> p,
     parameter_pointers |-> Falses(Len(a)),
     _k1 |-> k1, _k2 |-> k2, _m1 |-> m1, _m2 |-> m2,
     _flag1 |-> At(a, 5) # Num(0), _flag2 |-> At(a, 6) # Num(0),
     _flag3 |-> At(a, 7) # Num(0), _flag4 |-> At(a, 8) # Num(0),
     _flag5 |-> At(a, 9) # Num(0),
     _knot1 |-> Slice(a, Surface_knot1(k1, m1)[1], Surface_knot1(k1, m1)[2]),
     _knot2 |-> Slice(a, Surface_knot2(k1, k2, m1, m2)[1], Surface_knot2(k1, k2, m1, m2)[2]),
     _weights |-> Slice(a, Surface_weights(k1, k2, m1, m2)[1], Surface_weights(k1, k2, m1, m2)[2]),
     _cp |-> Reshape3(Slice(a, Surface_cp(k1, k2, m1, m2)[1], Surface_cp(k1, k2, m1, m2)[2])),
     _u0 |-> At(a, Surface_cp(k1, k2, m1, m2)[2]),
     _u1 |-> At(a, Surface_cp(k1, k2, m1, m2)[2] + 1),
     _v0 |-> At(a, Surface_cp(k1, k2, m1, m2)[2] + 2),
     _v1 |-> At(a, Surface_cp(k1, k2, m1, m2)[2] + 3)]

\* the exception after the header was read: reshape of a slice whose size
\* is no multiple of 3 raises ValueError, a read past the end IndexError
Surface_body_err(a, k1, k2, m1, m2) ==
    LET cp == Surface_cp(k1, k2, m1, m2) IN
    IF Len(Slice(a, cp[1], cp[2])) % 3 # 0 THEN "ValueError"
    ELSE FirstErr(a, Reads(Range(cp[2], cp[2] + 4), "raw"))

\* the reads that index the token list: the conversion of every token,
\* then (on the array) the nine header entries
RationalBSplineSurface_reads(p) ==
    Reads(Range(0, Len(p)), "parse_float") \o Reads(Range(1, 10), "raw")

\* the array of floats is built first: one unparsable token anywhere in the
\* list raises ValueError; then the nine header entries are indexed
RationalBSplineSurface_add_parameters(p) ==
    LET parsed == Surface_parsed(p)
        a  == [j \in 1..Len(p) |-> parsed[j].val]
        k1 == TruncInt(At(a, 1))
        k2 == TruncInt(At(a, 2))
        m1 == TruncInt(At(a, 3))
        m2 == TruncInt(At(a, 4))
        e  == IF \E j \in 1..Len(p) : parsed[j].err # "none" THEN "ValueError"
              ELSE IF Len(a) < 10 THEN "IndexError"
              ELSE Surface_body_err(a, k1, k2, m1, m2)
    IN  Result(e, Surface_fields(p, a, k1, k2, m1, m2))

(***************************************************************************)
(* Count-prefixed decoders.                                                *)
(***************************************************************************)
Composite_Curve_reads(p) ==
    Then(p, Reads(<<1>>, "int"), Reads(Range(2, 2 + INT(p, 1)), "int"))

\* parameter_pointers = [False, False], then one True appended per curve
Composite_Curve_add_parameters(p) ==
    Result(FirstErr(p, Composite_Curve_reads(p)),
           [parameters |-> p,
            parameter_pointers |-> <<FALSE, FALSE>> \o Trues(INT(p, 1)),
            N_curves |-> INT(p, 1),
            curves |-> [j \in 1..Max(0, INT(p, 1)) |-> INT(p, j + 1)]])

\* the inner boundaries are stored as the tokens themselves
Trimmed_Surface_reads(p) ==
    Then(p, Reads(Range(1, 5), "int"), Reads(Range(5, 5 + INT(p, 3)), "raw"))

\* [False, True, False, False, True], one True per inner boundary, then
\* [False] * (len(parameters) - len(self.parameter_pointers))
Trimmed_Surface_pointers(p, n) ==
    (<<FALSE, TRUE, FALSE, FALSE, TRUE>> \o Trues(n)) \o Falses(Len(p) - (5 + Max(0, n)))

Trimmed_Surface_add_parameters(p) ==
    Result(FirstErr(p, Trimmed_Surface_reads(p)),
           [parameters |-> p,
            parameter_pointers |-> Trimmed_Surface_pointers(p, INT(p, 3)),
            surface_pointer |-> INT(p, 1),
            flag_boundary |-> INT(p, 2),
            n_inner_boundary |-> INT(p, 3),
            OuterBound |-> INT(p, 4),
            inner_curve_boundary |-> [j \in 1..Max(0, INT(p, 3)) |-> At(p, 4 + j)]])

Bounded_Surface_reads(p) ==
    Then(p, Reads(Range(1, 4), "int"), Reads(Range(4, 4 + INT(p, 3)), "int"))

\* self.parameter_pointers[True] in the loop only reads element 1: nothing
\* is appended, the list keeps its four entries
Bounded_Surface_add_parameters(p) ==
    Result(FirstErr(p, Bounded_Surface_reads(p)),
           [parameters |-> p,
            parameter_pointers |-> <<FALSE, FALSE, TRUE, FALSE>>,
            Type |-> INT(p, 1),
            surface_pointer |-> INT(p, 2),
            N_boundaries |-> INT(p, 3),
            B |-> [j \in 1..Max(0, INT(p, 3)) |-> INT(p, j + 3)]])

\* the positions of the slice parameters[4 : 4 + Number_of_entities]: a
\* slice never raises, it ends where the list ends
Subfigure_slice(p, n) == Range(Clip(p, 4), Clip(p, 4 + n))

\* int(parameters[1]), str(parameters[2]), int(parameters[3]), then
\* int(x) for every x of the slice
Subfigure_reads(p) ==
    Then(p, <<[i |-> 1, c |-> "int"], [i |-> 2, c |-> "raw"], [i |-> 3, c |-> "int"]>>,
            Reads(Subfigure_slice(p, INT(p, 3)), "int"))

\* [False] * 4, [True] * Number_of_entities, then
\* [False] * (len(parameters) - len(self.parameter_pointers))
Subfigure_flags(p, n) ==
    (<<FALSE, FALSE, FALSE, FALSE>> \o Trues(n)) \o Falses(Len(p) - (4 + Max(0, n)))

Subfigure_add_parameters(p) ==
    Result(FirstErr(p, Subfigure_reads(p)),
           [parameters |-> p,
            parameter_pointers |-> Subfigure_flags(p, INT(p, 3)),
            Depth_of_subfigure |-> INT(p, 1),
            Subfigure_Name |-> At(p, 2),
            Number_of_entities |-> INT(p, 3),
            pointers |-> [j \in 1..Len(Subfigure_slice(p, INT(p, 3))) |->
                            INT(p, Subfigure_slice(p, INT(p, 3))[j])]])

Face_reads(p) ==
    Then(p, <<[i |-> 1, c |-> "int"], [i |-> 2, c |-> "int"], [i |-> 3, c |-> "raw"]>>,
            Reads(Range(4, 4 + INT(p, 2)), "int"))

\* Face sets neither parameters nor parameter_pointers;
\* bool(parameters[3]) of a token is true unless the token is empty
Face_add_parameters(p) ==
    Result(FirstErr(p, Face_reads(p)),
           [surf_pointer |-> INT(p, 1),
            n_loops |-> INT(p, 2),
            outer_loop_flag |-> Len(At(p, 3)) > 0,
            loop_pointers |-> [j \in 1..Max(0, INT(p, 2)) |-> INT(p, j + 3)]])

VertexList_reads(p) ==
    Then(p, Reads(<<1>>, "int"), Reads(Range(2, 2 + 3 * INT(p, 1)), "parse_float"))

VertexList_add_parameters(p) ==
    Result(FirstErr(p, VertexList_reads(p)),
           [parameters |-> p,
            parameter_pointers |-> Falses(Len(p)),
            n_points |-> INT(p, 1),
            points |-> [j \in 1..Max(0, INT(p, 1)) |->
                          <<PF(p, 3 * j - 1), PF(p, 3 * j), PF(p, 3 * j + 1)>>]])

(***************************************************************************)
(* Boundary.  The tokens of the list are strings, and                      *)
(* unpack_boundary_curves_parameters uses three of them unconverted.       *)
(***************************************************************************)
\* space_curve, flag_1 and K1 are parameters[start_index .. start_index + 2];
\* end_index = start_index + 3 + K1 adds the token K1, a str, to an int,
\* which raises TypeError; the slice and the return are never reached
unpack_boundary_curves_parameters(p, start_index) ==
    LET e == FirstErr(p, Reads(Range(start_index, start_index + 3), "raw")) IN
    [err |-> IF e # "none" THEN e ELSE "TypeError"]

Boundary_reads(p) ==
    Then(p, Reads(Range(1, 5), "int"),
            IF INT(p, 4) > 0 THEN Reads(Range(5, 8), "raw") ELSE <<>>)

\* the first iteration of for _ in range(self.N) raises; without an
\* iteration the three lists stay empty
Boundary_add_parameters(p) ==
    LET e == FirstErr(p, Reads(Range(1, 5), "int")) IN
    Result(IF e # "none" THEN e
           ELSE IF INT(p, 4) > 0 THEN unpack_boundary_curves_parameters(p, 5).err
           ELSE "none",
           [parameters |-> p,
            Type |-> INT(p, 1),
            pref |-> INT(p, 2),
            surface_pointer |-> INT(p, 3),
            N |-> INT(p, 4),
            space_curves |-> <<>>,
            model_curves |-> <<>>,
            Flags |-> <<>>])

(***************************************************************************)
(* The token lists the model draws.  A list is laid out as its decoder     *)
(* expects (type code, counts, then one numeric token per position), cut   *)
(* short or padded, and at most one of its tokens is replaced by a         *)
(* legacy-exponent or an unparsable token.                                 *)
(***************************************************************************)
FixedKinds ==
    {"Point", "Line", "Transformation", "ConicArc", "CircularArc",
     "Curve_On_A_Parametric_Surface", "Surface_of_Revolution", "Tabulated_Cylinder",
     "Color", "Singular_Subgfigure_Instance"}

CountedKinds ==
    {"Composite_Curve", "Trimmed_Surface", "Bounded_Surface", "Subfigure", "Face",
     "VertexList", "Boundary"}

Kinds == FixedKinds \cup CountedKinds \cup {"RationalBSplineCurve", "RationalBSplineSurface"}

\* None is the empty tuple, a pointer n the tuple <<n>>
NoMeta == [transform |-> <<>>]

\* self.d of a CircularArc may name a transformation matrix
Metas(k) == IF k = "CircularArc" THEN {NoMeta, [transform |-> <<1>>]} ELSE {NoMeta}

RECURSIVE IntToTok(_)
\* the decimal digits of a natural number
IntToTok(n) == IF n < 10 THEN <<Digits[n + 1]>> ELSE Append(IntToTok(n \div 10), Digits[(n % 10) + 1])

TypeTok(k) ==
    CASE k = "Point"                  -> <<"1", "1", "6">>
      [] k = "Line"                   -> <<"1", "1", "0">>
      [] k = "Transformation"         -> <<"1", "2", "4">>
      [] k = "ConicArc"               -> <<"1", "0", "4">>
      [] k = "CircularArc"            -> <<"1", "0", "0">>
      [] k = "RationalBSplineCurve"   -> <<"1", "2", "6">>
      [] k = "RationalBSplineSurface" -> <<"1", "2", "8">>
      [] k = "Composite_Curve"        -> <<"1", "0", "2">>
      [] k = "Trimmed_Surface"        -> <<"1", "4", "4">>
      [] k = "Bounded_Surface"        -> <<"1", "4", "3">>
      [] k = "Subfigure"              -> <<"3", "0", "8">>
      [] k = "Face"                   -> <<"5", "1", "0">>
      [] k = "VertexList"             -> <<"5", "0", "2">>
      [] k = "Curve_On_A_Parametric_Surface" -> <<"1", "4", "2">>
      [] k = "Boundary"               -> <<"1", "4", "1">>
      [] k = "Surface_of_Revolution"  -> <<"1", "2", "0">>
      [] k = "Tabulated_Cylinder"     -> <<"1", "2", "2">>
      [] k = "Color"                  -> <<"3", "1", "4">>
      [] k = "Singular_Subgfigure_Instance" -> <<"4", "0", "8">>

\* the positions of the tokens that decide the lengths of the arrays
CountPos(k) ==
    CASE k = "RationalBSplineCurve"   -> <<1, 2>>
      [] k = "RationalBSplineSurface" -> <<1, 2, 3, 4>>
      [] k = "Composite_Curve"        -> <<1>>
      [] k = "VertexList"             -> <<1>>
      [] k = "Face"                   -> <<2>>
      [] k = "Boundary"               -> <<4>>
      [] k \in {"Trimmed_Surface", "Bounded_Surface", "Subfigure"} -> <<3>>
      [] OTHER -> <<>>

\* the values drawn for them
CountSets(k) ==
    CASE k = "RationalBSplineCurve" ->
            {<<K, M>> : K \in 0..MaxK, M \in 0..MaxM}
      [] k = "RationalBSplineSurface" ->
            {<<k1, k2, m1, m2>> : k1 \in 0..MaxK, k2 \in 0..MaxK, m1 \in 0..MaxM, m2 \in 0..MaxM}
      [] k \in CountedKinds -> {<<n>> : n \in 0..MaxCount}
      [] OTHER -> {<<>>}

\* the number of tokens of a complete record with these counts: one more
\* than the last index its decoder reads (the curve's without a normal)
FullLen(k, c) ==
    CASE k = "Point"           -> 4
      [] k = "Line"            -> 7
      [] k = "Transformation"  -> 13
      [] k = "ConicArc"        -> 13
      [] k = "CircularArc"     -> 8
      [] k = "Curve_On_A_Parametric_Surface" -> 6
      [] k = "Surface_of_Revolution"  -> 5
      [] k = "Tabulated_Cylinder"     -> 5
      [] k = "Color"                  -> 4
      [] k = "Singular_Subgfigure_Instance" -> 6
      [] k = "RationalBSplineCurve"   -> Curve_V0(c[1], c[2]) + 2
      [] k = "RationalBSplineSurface" -> Surface_cp(c[1], c[2], c[3], c[4])[2] + 4
      [] k = "Composite_Curve" -> 2 + c[1]
      [] k = "VertexList"      -> 2 + 3 * c[1]
      [] k = "Trimmed_Surface" -> 5 + c[1]
      [] k \in {"Bounded_Surface", "Subfigure", "Face"} -> 4 + c[1]
      [] k = "Boundary"        -> 5 + 3 * c[1]

\* the token at (Python) position i; the sub-records of a Boundary are laid
\* out with no parameter-space curve: pointer, flag, K = 0
TokAt(k, c, i) ==
    IF i = 0 THEN TypeTok(k)
    ELSE IF k = "Boundary" /\ i >= 5 /\ (i - 5) % 3 = 2 THEN <<"0">>
    ELSE IF \E j \in 1..Len(CountPos(k)) : CountPos(k)[j] = i
         THEN IntToTok(c[CHOOSE j \in 1..Len(CountPos(k)) : CountPos(k)[j] = i])
         ELSE IntToTok(i)

\* the list of n tokens laid out for kind k with counts c
Laid(k, c, n) == [j \in 1..n |-> TokAt(k, c, j - 1)]

SpecialToks == {LegacyTok, BadTok}

\* a replacement <<i, t>> puts token t at (Python) position i >= 1 of the
\* list; <<0, t>> replaces nothing: the type code is never replaced
Replacements(n) == {<<0, BadTok>>} \cup ((1..(n - 1)) \X SpecialToks)

Replaced(p, v) == IF v[1] = 0 THEN p ELSE [p EXCEPT ![v[1] + 1] = v[2]]

\* the end-to-end example of a Line, and the curve with K = 3, M = 3 built
\* with exactly its counts and with one trailing token fewer
ExampleLine == <<TypeTok("Line"), <<"1">>, <<"1">>, <<"2">>, <<"3">>, <<"4">>, <<"5">>, <<"6">>>>

ExampleCurveFull == Laid("RationalBSplineCurve", <<3, 3>>, FullLen("RationalBSplineCurve", <<3, 3>>))

ExampleCurveShort == SubSeq(ExampleCurveFull, 1, Len(ExampleCurveFull) - 1)

\* a Boundary of one curve with one parameter-space curve, and one of two
\* curves, the first with one parameter-space curve and the second with none
ExampleBoundaryOne ==
    <<TypeTok("Boundary"), <<"0">>, <<"0">>, <<"3">>, <<"1">>,
      <<"5">>, <<"0">>, <<"1">>, <<"7">>>>

ExampleBoundaryTwo ==
    <<TypeTok("Boundary"), <<"0">>, <<"0">>, <<"3">>, <<"2">>,
      <<"5">>, <<"0">>, <<"1">>, <<"7">>,
      <<"9">>, <<"1">>, <<"0">>>>

Examples(k) ==
    CASE k = "Line" -> {ExampleLine}
      [] k = "RationalBSplineCurve" -> {ExampleCurveFull, ExampleCurveShort}
      [] k = "Boundary" -> {ExampleBoundaryOne, ExampleBoundaryTwo}
      [] OTHER -> {}

\* the lengths drawn for a list with counts c
Lengths(k, c) == Max(0, FullLen(k, c) - MaxShort)..(FullLen(k, c) + MaxExtra)

(***************************************************************************)
(* The program: parse_float applied to one token, or one decoder applied   *)
(* to one token list; either returns or raises.                            *)
(***************************************************************************)
\* a token handed to parse_float on its own
InitToken ==
    /\ kind = "parse_float"
    /\ d = NoMeta
    /\ parameters \in {<<t>> : t \in Tokens}

\* a record handed to its decoder
InitRecord ==
    /\ kind \in Kinds
    /\ d \in Metas(kind)
    /\ \/ \E c \in CountSets(kind) : \E n \in Lengths(kind, c) : \E v \in Replacements(n) :
             parameters = Replaced(Laid(kind, c, n), v)
       \/ parameters \in Examples(kind)

NoCall == [on |-> 0, name |-> "none", arg |-> <<>>, err |-> "none", ret |-> <<>>]

Init ==
    /\ InitToken \/ InitRecord
    /\ pc = "ready"
    /\ err = "none"
    /\ ent = NoEnt
    /\ file = <<>>
    /\ entities = <<>>
    /\ phase = "none"
    /\ call = NoCall
    /\ frame = NoFrame

\* the call returns r.ent or raises r.err
Decoded(k, r) ==
    /\ kind = k
    /\ pc = "ready"
    /\ err' = r.err
    /\ ent' = r.ent
    /\ pc' = "done"
    /\ UNCHANGED <<kind, d, parameters>>
    /\ UNCHANGED gvars

ParseToken ==
    Decoded("parse_float",
            LET r == parse_float(parameters[1]) IN Result(r.err, [val |-> r.val, via |-> r.via]))

DecodePoint == Decoded("Point", Point_add_parameters(parameters))

DecodeLine == Decoded("Line", Line_add_parameters(parameters))

DecodeTransformation == Decoded("Transformation", Transformation_add_parameters(parameters))

DecodeConicArc == Decoded("ConicArc", ConicArc_add_parameters(parameters))

DecodeCircularArc == Decoded("CircularArc", CircularArc_add_parameters(d, parameters))

DecodeRationalBSplineCurve ==
    Decoded("RationalBSplineCurve", RationalBSplineCurve_add_parameters(parameters))

DecodeRationalBSplineSurface ==
    Decoded("RationalBSplineSurface", RationalBSplineSurface_add_parameters(parameters))

DecodeComposite_Curve == Decoded("Composite_Curve", Composite_Curve_add_parameters(parameters))

DecodeTrimmed_Surface == Decoded("Trimmed_Surface", Trimmed_Surface_add_parameters(parameters))

DecodeBounded_Surface == Decoded("Bounded_Surface", Bounded_Surface_add_parameters(parameters))

DecodeSubfigure == Decoded("Subfigure", Subfigure_add_parameters(parameters))

DecodeFace == Decoded("Face", Face_add_parameters(parameters))

DecodeVertexList == Decoded("VertexList", VertexList_add_parameters(parameters))

DecodeBoundary == Decoded("Boundary", Boundary_add_parameters(parameters))

DecodeCurve_On_A_Parametric_Surface ==
    Decoded("Curve_On_A_Parametric_Surface",
            Curve_On_A_Parametric_Surface_add_parameters(parameters))

DecodeSurface_of_Revolution ==
    Decoded("Surface_of_Revolution", Surface_of_Revolution_add_parameters(parameters))

DecodeTabulated_Cylinder ==
    Decoded("Tabulated_Cylinder", Tabulated_Cylinder_add_parameters(parameters))

DecodeColor == Decoded("Color", Color_add_parameters(parameters))

DecodeSingular_Subgfigure_Instance ==
    Decoded("Singular_Subgfigure_Instance",
            Singular_Subgfigure_Instance_add_parameters(parameters))

Next ==
    \/ ParseToken
    \/ DecodePoint
    \/ DecodeLine
    \/ DecodeTransformation
    \/ DecodeConicArc
    \/ DecodeCircularArc
    \/ DecodeRationalBSplineCurve
    \/ DecodeRationalBSplineSurface
    \/ DecodeComposite_Curve
    \/ DecodeTrimmed_Surface
    \/ DecodeBounded_Surface
    \/ DecodeSubfigure
    \/ DecodeFace
    \/ DecodeVertexList
    \/ DecodeCurve_On_A_Parametric_Surface
    \/ DecodeBoundary
    \/ DecodeSurface_of_Revolution
    \/ DecodeTabulated_Cylinder
    \/ DecodeColor
    \/ DecodeSingular_Subgfigure_Instance

Spec == Init /\ [][Next]_vars

\* the reads of the decoder of kind k on the token list p
ReadsOf(k, p) ==
    CASE k = "parse_float"            -> Reads(<<0>>, "parse_float")
      [] k = "Point"                  -> Point_reads(p)
      [] k = "Line"                   -> Line_reads(p)
      [] k = "Transformation"         -> Transformation_reads(p)
      [] k = "ConicArc"               -> ConicArc_reads(p)
      [] k = "CircularArc"            -> CircularArc_reads(p)
      [] k = "RationalBSplineCurve"   -> RationalBSplineCurve_reads(p)
      [] k = "RationalBSplineSurface" -> RationalBSplineSurface_reads(p)
      [] k = "Composite_Curve"        -> Composite_Curve_reads(p)
      [] k = "Trimmed_Surface"        -> Trimmed_Surface_reads(p)
      [] k = "Bounded_Surface"        -> Bounded_Surface_reads(p)
      [] k = "Subfigure"              -> Subfigure_reads(p)
      [] k = "Face"                   -> Face_reads(p)
      [] k = "VertexList"             -> VertexList_reads(p)
      [] k = "Curve_On_A_Parametric_Surface" -> Curve_On_A_Parametric_Surface_reads(p)
      [] k = "Boundary"               -> Boundary_reads(p)
      [] k = "Surface_of_Revolution"  -> Surface_of_Revolution_reads(p)
      [] k = "Tabulated_Cylinder"     -> Tabulated_Cylinder_reads(p)
      [] k = "Color"                  -> Color_reads(p)
      [] k = "Singular_Subgfigure_Instance" -> Singular_Subgfigure_Instance_reads(p)

\* position i (Python) of the list holds a token that the decoder of kind k
\* stores as a pointer to a directory entry (the Pointer rows of the
\* Parameter Data tables, the values the accessors hand to from_pointer);
\* n is the count the list declares
Pointer_position(k, n, i) ==
    CASE k = "Composite_Curve"               -> i >= 2 /\ i <= 1 + n
      [] k = "Curve_On_A_Parametric_Surface" -> i >= 2 /\ i <= 4
      [] k = "Trimmed_Surface"               -> i = 1 \/ (i >= 4 /\ i <= 4 + n)
      [] k = "Bounded_Surface"               -> i = 2 \/ (i >= 4 /\ i <= 3 + n)
      [] k = "Subfigure"                     -> i >= 4 /\ i <= 3 + n
      [] k = "Face"                          -> i = 1 \/ (i >= 4 /\ i <= 3 + n)
      [] k = "Boundary"                      -> i = 3
      [] k = "Surface_of_Revolution"         -> i = 1 \/ i = 2
      [] k = "Tabulated_Cylinder"            -> i = 1
      [] k = "Singular_Subgfigure_Instance"  -> i = 1
      [] OTHER                               -> FALSE

Done == pc = "done"

Returned == pc = "done" /\ err = "none"

(***************************************************************************)
(* EdgeList, and the entity of a type code without a decoder.              *)
(***************************************************************************)
EdgeList_reads(p) ==
    Then(p, Reads(<<1>>, "int"), Reads(Range(2, 2 + 5 * INT(p, 1)), "int"))

EdgeList_add_parameters(p) ==
    Result(FirstErr(p, EdgeList_reads(p)),
           [parameters |-> p,
            n_edges |-> INT(p, 1),
            edges |-> [j \in 1..Max(0, INT(p, 1)) |->
                         [curve1 |-> INT(p, 5 * j - 3), svl |-> INT(p, 5 * j - 2),
                          s |-> INT(p, 5 * j - 1), evl |-> INT(p, 5 * j),
                          e |-> INT(p, 5 * j + 1)]]])

\* the decoder of kind k on the token list p; only CircularArc reads self.d
add_parameters(k, md, p) ==
    CASE k = "Point"                  -> Point_add_parameters(p)
      [] k = "Line"                   -> Line_add_parameters(p)
      [] k = "Transformation"         -> Transformation_add_parameters(p)
      [] k = "ConicArc"               -> ConicArc_add_parameters(p)
      [] k = "CircularArc"            -> CircularArc_add_parameters(md, p)
      [] k = "RationalBSplineCurve"   -> RationalBSplineCurve_add_parameters(p)
      [] k = "RationalBSplineSurface" -> RationalBSplineSurface_add_parameters(p)
      [] k = "Composite_Curve"        -> Composite_Curve_add_parameters(p)
      [] k = "Curve_On_A_Parametric_Surface" -> Curve_On_A_Parametric_Surface_add_parameters(p)
      [] k = "Trimmed_Surface"        -> Trimmed_Surface_add_parameters(p)
      [] k = "Boundary"               -> Boundary_add_parameters(p)
      [] k = "Bounded_Surface"        -> Bounded_Surface_add_parameters(p)
      [] k = "Subfigure"              -> Subfigure_add_parameters(p)
      [] k = "Face"                   -> Face_add_parameters(p)
      [] k = "EdgeList"               -> EdgeList_add_parameters(p)
      [] k = "VertexList"             -> VertexList_add_parameters(p)
      [] k = "Surface_of_Revolution"  -> Surface_of_Revolution_add_parameters(p)
      [] k = "Tabulated_Cylinder"     -> Tabulated_Cylinder_add_parameters(p)
      [] k = "Color"                  -> Color_add_parameters(p)
      [] k = "Singular_Subgfigure_Instance" -> Singular_Subgfigure_Instance_add_parameters(p)

\* a plausible slip: a Composite_Curve resolves its curves while it is
\* decoded, which fails as long as a record of the file is not decoded
Entity_add_parameters_Eager(g, k, md, p) ==
    IF /\ k = "Composite_Curve"
       /\ add_parameters(k, md, p).err = "none"
       /\ \E j \in DOMAIN g : \E q \in DOMAIN add_parameters(k, md, p).ent.curves :
             g[j].kind = "raw" /\ file[j].de = add_parameters(k, md, p).ent.curves[q]
    THEN [err |-> "UnresolvedReferenceError", ent |-> NoEnt]
    ELSE add_parameters(k, md, p)

\* _add_parameters called on an entity whose self.iges is g and whose
\* self.d is md: no _add_parameters reads self.iges
Entity_add_parameters(g, k, md, p) == add_parameters(k, md, p)

(***************************************************************************)
(* The type registry, the dispatch and the resolution of a pointer belong  *)
(* to the model object (self.iges).                                        *)
(***************************************************************************)
\* the decoder registered for a type code
registry(type_code) ==
    CASE type_code = 100 -> "CircularArc"
      [] type_code = 102 -> "Composite_Curve"
      [] type_code = 104 -> "ConicArc"
      [] type_code = 110 -> "Line"
      [] type_code = 116 -> "Point"
      [] type_code = 124 -> "Transformation"
      [] type_code = 126 -> "RationalBSplineCurve"
      [] type_code = 128 -> "RationalBSplineSurface"
      [] type_code = 141 -> "Boundary"
      [] type_code = 142 -> "Curve_On_A_Parametric_Surface"
      [] type_code = 143 -> "Bounded_Surface"
      [] type_code = 144 -> "Trimmed_Surface"
      [] type_code = 308 -> "Subfigure"
      [] type_code = 502 -> "VertexList"
      [] type_code = 504 -> "EdgeList"
      [] type_code = 510 -> "Face"
      [] OTHER           -> "Unsupported"

\* the entity of kind k a decoder left, with the error it raised
Constructed(k, r) == [kind |-> k, err |-> r.err, ent |-> r.ent]

\* a plausible slip: a type code without a decoder is an error
dispatch_Strict(g, md, p) ==
    LET k == registry(INT(p, 0)) IN
    IF k = "Unsupported"
    THEN [kind |-> k, err |-> "KeyError", ent |-> NoEnt]
    ELSE Constructed(k, Entity_add_parameters(g, k, md, p))

\* dispatch of a record: the entity of its decoder, the error of the decoder
\* kept with the record, or an Unsupported entity that keeps the token list
dispatch(g, md, p) ==
    LET k == registry(INT(p, 0)) IN
    IF k = "Unsupported"
    THEN [kind |-> k, err |-> "none", ent |-> [parameters |-> p]]
    ELSE Constructed(k, Entity_add_parameters(g, k, md, p))

\* the records of the file whose directory entry is ptr
Targets(ptr) == {i \in DOMAIN file : file[i].de = ptr}

\* self.iges.from_pointer(ptr): the entity (its place in the model) or
\* UnresolvedReferenceError
from_pointer(ptr) ==
    IF Targets(ptr) # {}
    THEN [err |-> "none", ret |-> CHOOSE i \in Targets(ptr) : TRUE]
    ELSE [err |-> "UnresolvedReferenceError", ret |-> 0]

\* the result of an accessor: what it raised or returned, and self after it
Return(e, r, self) == [err |-> e, ret |-> r, self |-> self]

\* return self.iges.from_pointer(ptr)
Resolve_one(ptr, self) == Return(from_pointer(ptr).err, from_pointer(ptr).ret, self)

\* out = [] ; for ptr in ptrs: out.append(self.iges.from_pointer(ptr)) ;
\* return out -- the first pointer that does not resolve raises
Resolve_each(ptrs, self) ==
    IF \E j \in 1..Len(ptrs) : from_pointer(ptrs[j]).err # "none"
    THEN Return("UnresolvedReferenceError", <<>>, self)
    ELSE Return("none", [j \in 1..Len(ptrs) |-> from_pointer(ptrs[j]).ret], self)

(***************************************************************************)
(* The accessors of the entities.                                          *)
(***************************************************************************)
\* a plausible slip: a pointer that does not resolve is skipped
Composite_Curve_get_curves_SkipMissing(self) ==
    LET ok == SelectSeq(self.curves, LAMBDA c : from_pointer(c).err = "none") IN
    Return("none", [j \in 1..Len(ok) |-> from_pointer(ok[j]).ret], self)

\* a plausible slip: the resolved entities are stored back into self.curves
Composite_Curve_get_curves_InPlace(self) ==
    LET r == Resolve_each(self.curves, self) IN
    Return(r.err, r.ret, IF r.err = "none" THEN [self EXCEPT !.curves = r.ret] ELSE self)

\* a plausible slip: the loop starts at the second pointer
Composite_Curve_get_curves_FromSecond(self) ==
    Resolve_each(SubSeq(self.curves, 2, Len(self.curves)), self)

Composite_Curve_get_curves(self) == Resolve_each(self.curves, self)

\* for x in xs: out.append(self.iges.from_pointer(x)) ; return x -- the
\* loop variable is returned: the last element of xs, not the list out; when
\* xs is empty the variable is unbound and the return raises
Boundary_last(xs, self) ==
    IF Len(xs) = 0 THEN Return("UnboundLocalError", <<>>, self)
    ELSE IF Resolve_each(xs, self).err # "none" THEN Resolve_each(xs, self)
    ELSE Return("none", xs[Len(xs)], self)

(***************************************************************************)
(* The files the model draws: two records.  The directory entries of the   *)
(* records are numbered 1, 3, ...; a pointer token names the first record, *)
(* the second or no record at all.                                         *)
(***************************************************************************)
\* the directory entry pointer of the i-th record of a file
DEOf(i) == 2 * i - 1

\* the pointer values drawn: those of the two records and one of no record
PointerValues == {DEOf(1), DEOf(2), DEOf(3)}

\* the pointer value after t, in a cycle
NextPointer(t) == IF t = DEOf(3) THEN DEOf(1) ELSE t + 2

\* t, the value after it, the value after that, ...
RECURSIVE PointerRun(_, _)
PointerRun(t, n) == IF n <= 0 THEN <<>> ELSE <<IntToTok(t)>> \o PointerRun(NextPointer(t), n - 1)

\* records without a pointer, one of them of the unregistered type 999
PlainRecords ==
    { [d |-> NoMeta, parameters |-> Laid("Line", <<>>, FullLen("Line", <<>>))],
      [d |-> NoMeta, parameters |-> Laid("Transformation", <<>>, FullLen("Transformation", <<>>))],
      [d |-> NoMeta, parameters |-> Laid("RationalBSplineCurve", <<0, 0>>,
                                         FullLen("RationalBSplineCurve", <<0, 0>>))],
      [d |-> NoMeta, parameters |-> <<IntToTok(999), IntToTok(1), IntToTok(2)>>],
      [d |-> NoMeta, parameters |-> Laid("CircularArc", <<>>, FullLen("CircularArc", <<>>))],
      [d |-> NoMeta, parameters |-> <<TypeTok("Composite_Curve"), IntToTok(0)>>],
      [d |-> NoMeta, parameters |-> ExampleBoundaryOne] }

\* records whose pointers are t and the values after it
PointerRecords(t) ==
    { [d |-> NoMeta, parameters |-> <<TypeTok("Composite_Curve"), IntToTok(n)>> \o PointerRun(t, n)] :
         n \in 1..MaxCount }
    \cup
    { [d |-> NoMeta,
       parameters |-> <<TypeTok("Curve_On_A_Parametric_Surface"), IntToTok(0)>> \o PointerRun(t, 3)
                      \o <<IntToTok(0)>>],
      [d |-> NoMeta,
       parameters |-> <<TypeTok("Trimmed_Surface"), IntToTok(t), IntToTok(0), IntToTok(0), IntToTok(NextPointer(t))>>],
      [d |-> NoMeta, parameters |-> <<TypeTok("Boundary"), IntToTok(0), IntToTok(0), IntToTok(t), IntToTok(0)>>],
      [d |-> NoMeta,
       parameters |-> <<TypeTok("Bounded_Surface"), IntToTok(0), IntToTok(NextPointer(t)), IntToTok(1), IntToTok(t)>>],
      [d |-> NoMeta,
       parameters |-> <<TypeTok("Face"), IntToTok(t), IntToTok(1), IntToTok(1), IntToTok(NextPointer(t))>>],
      [d |-> NoMeta,
       parameters |-> <<IntToTok(504), IntToTok(1), IntToTok(t), IntToTok(1), IntToTok(1), IntToTok(1), IntToTok(1)>>],
      [d |-> [transform |-> <<t>>],
       parameters |-> Laid("CircularArc", <<>>, FullLen("CircularArc", <<>>))] }

RecordChoices == PlainRecords \cup UNION {PointerRecords(t) : t \in PointerValues}

Record(i, r) == [de |-> DEOf(i), d |-> r.d, parameters |-> r.parameters]

Raw == [kind |-> "raw", err |-> "none", ent |-> NoEnt]

InitGraph ==
    /\ \E a \in RecordChoices : \E b \in RecordChoices : file = <<Record(1, a), Record(2, b)>>
    /\ entities = [i \in 1..2 |-> Raw]
    /\ phase = "decoding"
    /\ call = NoCall
    /\ frame = NoFrame
    /\ kind = "graph"
    /\ d = NoMeta
    /\ parameters = <<>>
    /\ pc = "graph"
    /\ err = "none"
    /\ ent = NoEnt

\* one record is decoded; the records are decoded in any order
Process ==
    /\ phase = "decoding"
    /\ \E i \in DOMAIN file :
          /\ entities[i].kind = "raw"
          /\ entities' = [entities EXCEPT ![i] = dispatch(entities, file[i].d, file[i].parameters)]
    /\ UNCHANGED <<file, phase, call>>
    /\ UNCHANGED <<kind, d, parameters, pc, err, ent, frame>>

\* every record is decoded: the model is built and its entities can be asked
Finalize ==
    /\ phase = "decoding"
    /\ \A i \in DOMAIN file : entities[i].kind # "raw"
    /\ phase' = "built"
    /\ UNCHANGED <<file, entities, call>>
    /\ UNCHANGED <<kind, d, parameters, pc, err, ent, frame>>

\* accessor name of the entity i of kind k is called with the arguments arg
\* and gives r
Call(i, k, name, arg, r) ==
    /\ phase = "built"
    /\ entities[i].kind = k
    /\ entities[i].err = "none"
    /\ call' = [on |-> i, name |-> name, arg |-> arg, err |-> r.err, ret |-> r.ret]
    /\ entities' = [entities EXCEPT ![i].ent = r.self]
    /\ UNCHANGED <<file, phase>>
    /\ UNCHANGED <<kind, d, parameters, pc, err, ent, frame>>

\* the entity i as the accessors see it
Self(i) == entities[i].ent

\* Composite_Curve.get_curves
CallGetCurves ==
    \E i \in DOMAIN file :
        Call(i, "Composite_Curve", "get_curves", <<>>, Composite_Curve_get_curves(Self(i)))

\* return self.iges.from_pointer(self.surface_pointer)
CallCurveOnGetSurface ==
    \E i \in DOMAIN file :
        Call(i, "Curve_On_A_Parametric_Surface", "get_surface", <<>>,
             Resolve_one(Self(i).surface_pointer, Self(i)))

\* return self.iges.from_pointer(self.curve_pointer)
CallCurveOnGetCurve ==
    \E i \in DOMAIN file :
        Call(i, "Curve_On_A_Parametric_Surface", "get_curve", <<>>,
             Resolve_one(Self(i).curve_pointer, Self(i)))

\* return self.iges.from_pointer(self.surface_pointer)
CallTrimmedGetSurface ==
    \E i \in DOMAIN file :
        Call(i, "Trimmed_Surface", "get_surface", <<>>,
             Resolve_one(Self(i).surface_pointer, Self(i)))

\* return self.iges.from_pointer(self.OuterBound)
CallTrimmedGetOuterboundary ==
    \E i \in DOMAIN file :
        Call(i, "Trimmed_Surface", "get_outerboundary", <<>>,
             Resolve_one(Self(i).OuterBound, Self(i)))

\* Boundary.get_space_curves: the loop over self.space_curves, return sc
CallBoundaryGetSpaceCurves ==
    \E i \in DOMAIN file :
        Call(i, "Boundary", "get_space_curves", <<>>,
             Boundary_last(Self(i).space_curves, Self(i)))

\* return self.iges.from_pointer(self.surface_pointer)
CallBoundaryGetSurface ==
    \E i \in DOMAIN file :
        Call(i, "Boundary", "get_surface", <<>>,
             Resolve_one(Self(i).surface_pointer, Self(i)))

\* Boundary.get_model_curves: the loop over self.model_curves, return mc
CallBoundaryGetModelCurves ==
    \E i \in DOMAIN file :
        Call(i, "Boundary", "get_model_curves", <<>>,
             Boundary_last(Self(i).model_curves, Self(i)))

\* return self.iges.from_pointer(self.surface_pointer)
CallBoundedGetSurface ==
    \E i \in DOMAIN file :
        Call(i, "Bounded_Surface", "get_surface", <<>>,
             Resolve_one(Self(i).surface_pointer, Self(i)))

\* Bounded_Surface.get_boundaries: the loop over self.B, return Bs
CallBoundedGetBoundaries ==
    \E i \in DOMAIN file :
        Call(i, "Bounded_Surface", "get_boundaries", <<>>, Resolve_each(Self(i).B, Self(i)))

\* Face.loops: the loop over self.loop_pointers, return loops
CallFaceLoops ==
    \E i \in DOMAIN file :
        Call(i, "Face", "loops", <<>>, Resolve_each(Self(i).loop_pointers, Self(i)))

\* EdgeList.__getitem__: self.edges[indices]["curve1"] resolved; indices
\* outside the list raise IndexError
CallEdgeListGetItem ==
    \E i \in DOMAIN file : \E indices \in 0..1 :
        Call(i, "EdgeList", "getitem", <<indices>>,
             IF ~InRange(Self(i).edges, indices) THEN Return("IndexError", <<>>, Self(i))
             ELSE Resolve_one(At(Self(i).edges, indices).curve1, Self(i)))

\* CircularArc.transform: if self._transform is not None:
\* return self.iges[self._transform] (otherwise the property returns None)
CallTransform ==
    \E i \in DOMAIN file :
        Call(i, "CircularArc", "transform", <<>>,
             IF Self(i)._transform # <<>> THEN Resolve_one(Self(i)._transform[1], Self(i))
             ELSE Return("none", <<>>, Self(i)))

\* Line.coordinates
CallCoordinates ==
    \E i \in DOMAIN file :
        Call(i, "Line", "coordinates", <<>>, Return("none", Line_coordinates(Self(i)), Self(i)))

\* Transformation.to_affine: the rows of the 4x4 matrix
CallToAffine ==
    \E i \in DOMAIN file :
        Call(i, "Transformation", "to_affine", <<>>,
             Return("none",
                    <<<<Self(i).r11, Self(i).r12, Self(i).r13, Self(i).t1>>,
                      <<Self(i).r21, Self(i).r22, Self(i).r23, Self(i).t2>>,
                      <<Self(i).r31, Self(i).r32, Self(i).r33, Self(i).t3>>,
                      <<Num(0), Num(0), Num(0), Num(1)>>>>,
                    Self(i)))

\* RationalBSplineCurve.to_geomdl: degree, control points, weights and knot
\* vector handed to the NURBS curve
CallToGeomdl ==
    \E i \in DOMAIN file :
        Call(i, "RationalBSplineCurve", "to_geomdl", <<>>,
             Return("none",
                    [degree |-> Self(i).M,
                     ctrlpts |-> Self(i).control_points,
                     weights |-> RationalBSplineCurve_to_geomdl_weights(Self(i)),
                     knotvector |-> Self(i).T],
                    Self(i)))

NextGraph ==
    \/ Process
    \/ Finalize
    \/ CallGetCurves
    \/ CallCurveOnGetSurface
    \/ CallCurveOnGetCurve
    \/ CallTrimmedGetSurface
    \/ CallTrimmedGetOuterboundary
    \/ CallBoundaryGetSpaceCurves
    \/ CallBoundaryGetSurface
    \/ CallBoundaryGetModelCurves
    \/ CallBoundedGetSurface
    \/ CallBoundedGetBoundaries
    \/ CallFaceLoops
    \/ CallEdgeListGetItem
    \/ CallTransform
    \/ CallCoordinates
    \/ CallToAffine
    \/ CallToGeomdl

SpecGraph == InitGraph /\ [][NextGraph]_vars

(***************************************************************************)
(* C1.  Decoding ["110","1","1","2","3","4","5","6"] as a Line.            *)
(***************************************************************************)
Pt(x, y, z) == <<Num(x), Num(y), Num(z)>>

\* C1 as claimed: the Line decoded from ["110","1","1","2","3","4","5","6"]
\* has the endpoints (1,2,3) and (4,5,6).
C1_Claimed ==
    (Done /\ kind = "Line" /\ parameters = ExampleLine) =>
        /\ err = "none"
        /\ Line_coordinates(ent) = <<Pt(1, 2, 3), Pt(4, 5, 6)>>

\* C1 as amended: token 0 is the type code and the coordinates are the
\* tokens 1..6, so the Line decoded from ["110","1","1","2","3","4","5","6"]
\* has the endpoints (1,1,2) and (3,4,5) (the token "6" is not read); it is
\* ["110","1","2","3","4","5","6"] that gives (1,2,3) and (4,5,6).
C1_LineExample ==
    /\ (Done /\ kind = "Line" /\ parameters = ExampleLine) =>
          /\ err = "none"
          /\ Line_coordinates(ent) = <<Pt(1, 1, 2), Pt(3, 4, 5)>>
    /\ (Done /\ kind = "Line" /\ parameters = Laid("Line", <<>>, Len(ExampleLine) - 1)) =>
          /\ err = "none"
          /\ Line_coordinates(ent) = <<Pt(1, 2, 3), Pt(4, 5, 6)>>

C1_Witness ==
    /\ Returned /\ kind = "Line" /\ parameters = ExampleLine
    /\ ent._x1 = Num(1) /\ ent._z2 = Num(5)

(***************************************************************************)
(* C2.  The legacy exponent marker.                                        *)
(***************************************************************************)
\* the literal s with its exponent marker written as mark
WithMarker(s, mark) == [i \in 1..Len(s) |-> IF IsExpMark(s[i]) THEN mark ELSE s[i]]

HasMarker(s) == \E i \in 1..Len(s) : IsExpMark(s[i])

\* C2: for every token s that float() accepts, parse_float of s with its
\* exponent marker written D or d returns the value parse_float(s) returned;
\* the except branch is taken only for tokens float() rejects, and it is the
\* branch that reads the D forms; "1.2D3", "1.2d3" and "1.2E3" all give 1200.
C2_LegacyExponent ==
    (Done /\ kind = "parse_float") =>
        LET s == parameters[1] IN
        /\ PyFloatOk(s) =>
              /\ err = "none" /\ ent.via = "try"
              /\ \A mark \in {"D", "d"} :
                    LET r == parse_float(WithMarker(s, mark)) IN
                    /\ r.err = "none"
                    /\ r.val = ent.val
                    /\ HasMarker(s) => r.via = "except"
        /\ (err = "none" /\ ent.via = "except") => ~PyFloatOk(s)
        /\ s \in {StandardTok, WithMarker(StandardTok, "D"), WithMarker(StandardTok, "d")} =>
              err = "none" /\ ent.val = Num(1200)

C2_Witness ==
    /\ Returned /\ kind = "parse_float"
    /\ parameters[1] = LegacyTok
    /\ ent.via = "except" /\ ent.val = Num(1200)
    /\ LegacyTok = WithMarker(StandardTok, "D")
    /\ parse_float(StandardTok).via = "try"

(***************************************************************************)
(* C3.  A token that is no number.                                         *)
(***************************************************************************)
\* t is a legacy literal: one D or d in it, and with E in that place
\* float() accepts it
IsLegacyLiteral(t) ==
    \E i \in 1..Len(t) : t[i] \in {"D", "d"} /\ PyFloatOk([t EXCEPT ![i] = "E"])

\* t is neither a standard float literal nor a legacy D-exponent literal
Neither(t) == ~PyFloatOk(t) /\ ~IsLegacyLiteral(t)

\* the positions of the list that the running call hands to parse_float and
\* that hold a token that is neither
BadFloatReads ==
    LET R == ReadsOf(kind, parameters) IN
    {j \in 1..Len(R) :
        /\ R[j].c = "parse_float"
        /\ InRange(parameters, R[j].i)
        /\ Neither(At(parameters, R[j].i))}

\* C3: parse_float of a token that is neither a standard nor a legacy
\* literal raises ValueError and returns no value, and so does the decode
\* of every entity that hands such a token to parse_float: no decoder
\* catches the exception.
C3_NumericFormatError ==
    (Done /\ BadFloatReads # {}) => (err = "ValueError" /\ ent = NoEnt)

C3_Witness ==
    /\ Done /\ kind = "RationalBSplineCurve"
    /\ Len(parameters) >= FullLen(kind, <<1, 1>>)
    /\ INT(parameters, 1) = 1 /\ INT(parameters, 2) = 1
    /\ At(parameters, Curve_V0(1, 1)) = BadTok
    /\ err = "ValueError"

(***************************************************************************)
(* C4, C5, C6.  RationalBSplineCurve.  The record is laid out as: seven    *)
(* leading tokens, the knots, the weights, the control points, V0 and V1,  *)
(* then the unit normal.                                                   *)
(***************************************************************************)
KnotCount(K, M) == (1 + K - M) + 2 * M + 1

\* the position of the first control point when K + 1 weights follow the knots
FirstPointPos(K, M) == 7 + KnotCount(K, M) + (K + 1)

\* the position of V1 in that layout
V1Pos(K, M) == FirstPointPos(K, M) + 3 * (K + 1) + 1

\* C4: a curve that decodes with upper index K and degree M has a knot vector
\* T of N + 2M + 1 entries, N = 1 + K - M, which are the tokens from position
\* 7 on, in order, and K + 1 control points of 3 numbers each, which are
\* consecutive tokens and are followed at once by V0 and V1.
C4_CurveArity ==
    (Returned /\ kind = "RationalBSplineCurve") =>
        LET K == ent.K
            M == ent.M
            b == FirstPointPos(K, M)
        IN  /\ K = INT(parameters, 1) /\ M = INT(parameters, 2)
            /\ Len(ent.T) = KnotCount(K, M)
            /\ \A j \in 1..Len(ent.T) : ent.T[j] = PF(parameters, 7 + (j - 1))
            /\ Len(ent.control_points) = K + 1
            /\ \A j \in 1..Len(ent.control_points) :
                  ent.control_points[j] =
                     <<PF(parameters, b + 3 * (j - 1)),
                       PF(parameters, b + 3 * (j - 1) + 1),
                       PF(parameters, b + 3 * (j - 1) + 2)>>
            /\ ent.V0 = PF(parameters, b + 3 * (K + 1))
            /\ ent.V1 = PF(parameters, b + 3 * (K + 1) + 1)

C4_Witness ==
    /\ Returned /\ kind = "RationalBSplineCurve"
    /\ ent.K = 1 /\ ent.M = 1
    /\ Len(ent.T) = 4 /\ Len(ent.control_points) = 2
    /\ ent.control_points[2] = Pt(16, 17, 18)
    /\ ent.V0 = Num(19)

\* C5 as claimed: a curve that decodes has a weight list W of K + 1 entries,
\* the tokens that follow the knot vector, the first control point being the
\* token after the last of them.
C5_Claimed ==
    (Returned /\ kind = "RationalBSplineCurve") =>
        /\ Len(ent.W) = ent.K + 1
        /\ \A j \in 1..Len(ent.W) : ent.W[j] = PF(parameters, 7 + Len(ent.T) + (j - 1))
        /\ ent.control_points[1][1] = PF(parameters, 7 + Len(ent.T) + Len(ent.W))

\* C6 as claimed: a curve whose list reaches V1 and holds only numbers
\* decodes; planar_curve is true exactly when at least three tokens follow
\* V1, and then XNORM, YNORM, ZNORM are those three tokens.
C6_Claimed ==
    (Done /\ kind = "RationalBSplineCurve" /\ err # "ValueError" /\ Len(parameters) >= 7) =>
        LET v1    == V1Pos(INT(parameters, 1), INT(parameters, 2))
            after == Len(parameters) - (v1 + 1)
        IN  after >= 0 =>
              /\ err = "none"
              /\ ent.planar_curve <=> (after >= 3)
              /\ ent.planar_curve =>
                    /\ ent.XNORM = PF(parameters, v1 + 1)
                    /\ ent.YNORM = PF(parameters, v1 + 2)
                    /\ ent.ZNORM = PF(parameters, v1 + 3)

(***************************************************************************)
(* C7.  RationalBSplineSurface.                                            *)
(***************************************************************************)
\* the value of the token at position i of the list
Val(p, i) == parse_float(At(p, i)).val

\* C7: a surface that decodes with (K1, M1) and (K2, M2) has knot vectors of
\* K1 + M1 + 2 and K2 + M2 + 2 entries, (K1+1)(K2+1) weights and
\* (K1+1)(K2+1) control points of 3 numbers, taken one after the other in
\* this order from position 10, followed by u0, u1, v0, v1.
C7_SurfaceArity ==
    (Returned /\ kind = "RationalBSplineSurface") =>
        LET n1 == ent._k1 + ent._m1 + 2
            n2 == ent._k2 + ent._m2 + 2
            nw == (ent._k1 + 1) * (ent._k2 + 1)
            b2 == 10 + n1
            bw == b2 + n2
            bc == bw + nw
            bu == bc + 3 * nw
        IN  /\ ent._k1 = INT(parameters, 1) /\ ent._k2 = INT(parameters, 2)
            /\ ent._m1 = INT(parameters, 3) /\ ent._m2 = INT(parameters, 4)
            /\ Len(ent._knot1) = n1
            /\ \A j \in 1..Len(ent._knot1) : ent._knot1[j] = Val(parameters, 10 + (j - 1))
            /\ Len(ent._knot2) = n2
            /\ \A j \in 1..Len(ent._knot2) : ent._knot2[j] = Val(parameters, b2 + (j - 1))
            /\ Len(ent._weights) = nw
            /\ \A j \in 1..Len(ent._weights) : ent._weights[j] = Val(parameters, bw + (j - 1))
            /\ Len(ent._cp) = nw
            /\ \A j \in 1..Len(ent._cp) :
                  ent._cp[j] = <<Val(parameters, bc + 3 * (j - 1)),
                                 Val(parameters, bc + 3 * (j - 1) + 1),
                                 Val(parameters, bc + 3 * (j - 1) + 2)>>
            /\ ent._u0 = Val(parameters, bu)     /\ ent._u1 = Val(parameters, bu + 1)
            /\ ent._v0 = Val(parameters, bu + 2) /\ ent._v1 = Val(parameters, bu + 3)

C7_Witness ==
    /\ Returned /\ kind = "RationalBSplineSurface"
    /\ ent._k1 = 1 /\ ent._k2 = 0 /\ ent._m1 = 0 /\ ent._m2 = 1
    /\ Len(ent._knot1) = 3 /\ Len(ent._knot2) = 3
    /\ Len(ent._weights) = 2 /\ Len(ent._cp) = 2
    /\ ent._u0 = Num(24)

(***************************************************************************)
(* C8, C9, C10.  Short lists, truncated arrays, the pointer flags.         *)
(***************************************************************************)
\* the count tokens of the list can be read
CountsReadable(k, p) ==
    \A j \in 1..Len(CountPos(k)) :
        InRange(p, CountPos(k)[j]) /\ PyInt(At(p, CountPos(k)[j])).err = "none"

\* the counts the list declares
CountsOf(k, p) == [j \in 1..Len(CountPos(k)) |-> INT(p, CountPos(k)[j])]

\* the list is shorter than the record its counts declare
TooShort(k, p) == CountsReadable(k, p) /\ Len(p) < FullLen(k, CountsOf(k, p))

\* C8 as claimed: a token list shorter than the length its decoder requires
\* makes the decode fail, with the exception of a missing token; the curve
\* with K = 3, M = 3 built with exactly its counts decodes and the one with
\* one trailing token fewer fails.
C8_Claimed ==
    /\ (Done /\ kind \in Kinds /\ TooShort(kind, parameters)) =>
          err \in {"IndexError", "ValueError"}
    /\ (Done /\ kind = "RationalBSplineCurve" /\ parameters = ExampleCurveFull) => err = "none"
    /\ (Done /\ kind = "RationalBSplineCurve" /\ parameters = ExampleCurveShort) =>
          err = "IndexError"

\* C9 as claimed: an array of a decode that returned has its declared
\* number of elements.
C9_Claimed ==
    Returned =>
        /\ kind = "Subfigure" => Len(ent.pointers) = ent.Number_of_entities
        /\ kind = "Composite_Curve" => Len(ent.curves) = ent.N_curves
        /\ kind = "VertexList" => Len(ent.points) = ent.n_points
        /\ kind = "RationalBSplineSurface" =>
              /\ Len(ent._weights) = (ent._k1 + 1) * (ent._k2 + 1)
              /\ Len(ent._cp) = (ent._k1 + 1) * (ent._k2 + 1)

\* C10 as claimed: an entity that decoded has a parameter_pointers array as
\* long as its token list.
C10_Claimed ==
    (Returned /\ kind \in Kinds) =>
        /\ "parameter_pointers" \in DOMAIN ent
        /\ Len(ent.parameter_pointers) = Len(parameters)

(***************************************************************************)
(* C11.  Which slots of parameter_pointers are true.                       *)
(***************************************************************************)
\* the count of the pointer array of the decoded entity
PointerCount(k, e) ==
    CASE k = "Composite_Curve" -> e.N_curves
      [] k = "Trimmed_Surface" -> e.n_inner_boundary
      [] k = "Bounded_Surface" -> e.N_boundaries
      [] k = "Subfigure"       -> e.Number_of_entities
      [] k = "Face"            -> e.n_loops
      [] k = "Boundary"        -> e.N
      [] OTHER                 -> 0

\* slot i of parameter_pointers is there and true
SlotTrue(e, i) ==
    /\ "parameter_pointers" \in DOMAIN e
    /\ i < Len(e.parameter_pointers)
    /\ e.parameter_pointers[i + 1]

\* C11 as claimed: after a decode that returned, slot i of parameter_pointers
\* is true exactly for the positions i of the token list that the decoder
\* read as a pointer: for a Bounded_Surface position 2 and 4..3+N, for a
\* Trimmed_Surface 1, 4 and 5..4+N.
C11_Claimed ==
    (Returned /\ kind \in Kinds) =>
        \A i \in 0..(Len(parameters) - 1) :
            SlotTrue(ent, i) <=> Pointer_position(kind, PointerCount(kind, ent), i)

(***************************************************************************)
(* C12.  Two records that point at each other.                             *)
(***************************************************************************)
\* the count token of a record of kind k
DeclaredCount(k, p) ==
    CASE k = "Composite_Curve" -> INT(p, 1)
      [] k = "Face"            -> INT(p, 2)
      [] k \in {"Trimmed_Surface", "Bounded_Surface", "Subfigure"} -> INT(p, 3)
      [] OTHER                 -> 0

\* the kind the type code of record i dispatches to
KindOf(i) == registry(INT(file[i].parameters, 0))

\* record i holds, at a pointer position of its kind, the directory entry
\* of record j
Refers(i, j) ==
    \E q \in 1..(Len(file[i].parameters) - 1) :
        /\ Pointer_position(KindOf(i), DeclaredCount(KindOf(i), file[i].parameters), q)
        /\ PyInt(At(file[i].parameters, q)).err = "none"
        /\ INT(file[i].parameters, q) = file[j].de

Mutual(i, j) == i # j /\ Refers(i, j) /\ Refers(j, i)

\* C12 as claimed: two records that point at each other (such as a Boundary
\* and a Bounded_Surface) both decode without an error, whichever is decoded
\* first, and once the model is built get_surface of the one gives the
\* other.
C12_Claimed ==
    \A i \in DOMAIN file : \A j \in DOMAIN file :
        Mutual(i, j) =>
            /\ entities[i].kind # "raw" => entities[i].err = "none"
            /\ (/\ call.on = i
                /\ call.name = "get_surface"
                /\ KindOf(i) \in {"Boundary", "Bounded_Surface"}
                /\ entities[i].ent.surface_pointer = file[j].de) =>
                    (call.err = "none" /\ call.ret = j)

(***************************************************************************)
(* C13.  A pointer without a target.                                       *)
(***************************************************************************)
\* the pointers the accessor name of the entity e hands to from_pointer
Resolved(e, name, arg) ==
    CASE name = "get_curves"        -> e.curves
      [] name = "get_surface"       -> <<e.surface_pointer>>
      [] name = "get_curve"         -> <<e.curve_pointer>>
      [] name = "get_outerboundary" -> <<e.OuterBound>>
      [] name = "get_boundaries"    -> e.B
      [] name = "loops"             -> e.loop_pointers
      [] name = "getitem"           -> IF InRange(e.edges, arg[1])
                                       THEN <<At(e.edges, arg[1]).curve1>> ELSE <<>>
      [] name = "transform"         -> e._transform
      [] OTHER                      -> <<>>

\* the last call resolved a pointer that no record of the file answers
Dangling ==
    /\ call.on # 0
    /\ \E q \in DOMAIN Resolved(Self(call.on), call.name, call.arg) :
          Targets(Resolved(Self(call.on), call.name, call.arg)[q]) = {}

\* C13: an accessor that resolves a pointer without a target raises
\* UnresolvedReferenceError (a call that raises returns nothing).
C13_Unresolved == Dangling => call.err = "UnresolvedReferenceError"

\* a call of get_curves met a pointer without a target, after one with a
\* target
C13_Witness ==
    /\ Dangling
    /\ call.name = "get_curves"
    /\ Targets(Self(call.on).curves[1]) # {}
    /\ call.err = "UnresolvedReferenceError"

(***************************************************************************)
(* C14.  A type code without a decoder.                                    *)
(***************************************************************************)
\* C14: the record of a type code without a decoder becomes an Unsupported
\* entity that raised nothing and keeps the token list of the record as it
\* was.
C14_Unsupported ==
    \A i \in DOMAIN file :
        (KindOf(i) = "Unsupported" /\ entities[i].kind # "raw") =>
            entities[i] = [kind |-> "Unsupported", err |-> "none",
                           ent |-> [parameters |-> file[i].parameters]]

\* a file whose first record has type code 999 is built: the record after
\* it was decoded as a Line
C14_Witness ==
    /\ phase = "built"
    /\ INT(file[1].parameters, 0) = 999
    /\ entities[1].kind = "Unsupported"
    /\ entities[2].kind = "Line"
    /\ entities[2].err = "none"

(***************************************************************************)
(* C15.  The aggregation accessors of a Boundary.                          *)
(***************************************************************************)
\* the list of the entities the pointers ptrs resolve to
ResolvedList(ptrs) == [q \in 1..Len(ptrs) |-> from_pointer(ptrs[q]).ret]

\* C15 as claimed: get_space_curves and get_model_curves of a decoded
\* Boundary return the list of the resolved entities of all N entries, the
\* empty list when N = 0 (or raise for a pointer without a target).
C15_Claimed ==
    (call.on # 0 /\ call.name \in {"get_space_curves", "get_model_curves"}) =>
        /\ call.err \in {"none", "UnresolvedReferenceError"}
        /\ call.err = "none" =>
              call.ret = ResolvedList(IF call.name = "get_space_curves"
                                      THEN Self(call.on).space_curves
                                      ELSE Self(call.on).model_curves)

(***************************************************************************)
(* C16.  Decoding depends on the record alone.                             *)
(***************************************************************************)
\* C16: whatever was decoded before it and whatever was called since, a
\* decoded entity is what its decoder gives for the token list and the
\* directory entry of its own record, decoded with no other entity around.
C16_OwnRecordOnly ==
    \A i \in DOMAIN file :
        entities[i].kind # "raw" =>
            entities[i] = dispatch(<<>>, file[i].d, file[i].parameters)

\* a Composite_Curve that points at the second record was decoded before
\* that record
C16_Witness ==
    /\ entities[1].kind = "Composite_Curve"
    /\ entities[1].err = "none"
    /\ Len(entities[1].ent.curves) > 0
    /\ entities[1].ent.curves[1] = DEOf(2)
    /\ entities[2].kind = "raw"

(***************************************************************************)
(* C17.  Entities do not change after they are decoded.                    *)
(***************************************************************************)
\* C17: no step changes the token list of a record, and no step (the decode
\* of another record, an accessor called on the entity or on another one)
\* changes an entity that is decoded.
C17_Immutable ==
    [][/\ file' = file
       /\ \A i \in DOMAIN entities :
             entities[i].kind # "raw" => entities'[i] = entities[i]]_vars

\* get_curves of a Composite_Curve returned the entities of its pointers,
\* and the Composite_Curve still holds the pointers and its token list
C17_Witness ==
    /\ call.on # 0
    /\ call.name = "get_curves"
    /\ call.err = "none"
    /\ Len(call.ret) > 0
    /\ Self(call.on).curves[1] = file[call.ret[1]].de
    /\ Self(call.on).parameters = file[call.on].parameters

(***************************************************************************)
(* C18.  The curves of a Composite_Curve.                                  *)
(***************************************************************************)
\* the record i is a Composite_Curve with count N and at least N + 2 tokens
CompositeRecord(i, N) ==
    /\ KindOf(i) = "Composite_Curve"
    /\ INT(file[i].parameters, 1) = N
    /\ Len(file[i].parameters) >= N + 2

\* C18: a decoded Composite_Curve of count N holds N pointers, the integers
\* of tokens 2..N+1 in that order, and get_curves, when it returns, gives N
\* entities, the q-th being the record that the q-th pointer names.
C18_CompositeCurve ==
    \A i \in DOMAIN file : \A N \in 0..(MaxCount + 1) :
        (CompositeRecord(i, N) /\ entities[i].kind # "raw") =>
            /\ entities[i].err = "none"
            /\ Len(entities[i].ent.curves) = N
            /\ \A q \in 1..N : entities[i].ent.curves[q] = INT(file[i].parameters, q + 1)
            /\ (call.on = i /\ call.name = "get_curves" /\ call.err = "none") =>
                  /\ Len(call.ret) = N
                  /\ \A q \in 1..N :
                        file[call.ret[q]].de = INT(file[i].parameters, q + 1)

\* get_curves of a Composite_Curve of two pointers returned the two records
\* they name, in the order of the pointers
C18_Witness ==
    /\ call.on = 2
    /\ call.name = "get_curves"
    /\ call.err = "none"
    /\ CompositeRecord(2, 2)
    /\ call.ret = <<1, 2>>

(***************************************************************************)
(* C20.  The sub-records of a Boundary.                                    *)
(***************************************************************************)
\* position (Python) of the q-th sub-record when the sub-records follow one
\* another from position 5 with no token between them
RECURSIVE SubRecordAt(_, _)
SubRecordAt(p, q) ==
    IF q <= 1 THEN 5
    ELSE SubRecordAt(p, q - 1) + 3 + INT(p, SubRecordAt(p, q - 1) + 2)

\* p is a Boundary list of integer tokens that holds its N sub-records
WellFormedBoundary(p) ==
    /\ Len(p) >= 5
    /\ \A i \in 1..(Len(p) - 1) : PyInt(At(p, i)).err = "none"
    /\ INT(p, 4) >= 0
    /\ \A q \in 1..INT(p, 4) :
          /\ SubRecordAt(p, q) + 2 < Len(p)
          /\ INT(p, SubRecordAt(p, q) + 2) >= 0
          /\ SubRecordAt(p, q) + 3 + INT(p, SubRecordAt(p, q) + 2) <= Len(p)

\* C20 as claimed: decoding a well-formed Boundary of N curves returns, with
\* N sub-records read back to back: the q-th model-space curve is the first
\* token of the q-th sub-record and its list of parameter-space curves has
\* K_q entries.
C20_Claimed ==
    (Done /\ kind = "Boundary" /\ WellFormedBoundary(parameters)) =>
        /\ err = "none"
        /\ Len(ent.space_curves) = INT(parameters, 4)
        /\ Len(ent.model_curves) = INT(parameters, 4)
        /\ \A q \in 1..INT(parameters, 4) :
              /\ ent.space_curves[q] = At(parameters, SubRecordAt(parameters, q))
              /\ Len(ent.model_curves[q]) = INT(parameters, SubRecordAt(parameters, q) + 2)

(***************************************************************************)
(* Loop._add_parameters run statement by statement: the outer loop over    *)
(* the edges, the inner loop over the parameter-space curves of an edge.   *)
(* A step is the header of the method, one pass through a loop body, or    *)
(* the exit of a loop.                                                     *)
(***************************************************************************)
\* the token of an integer, with its sign
SignedTok(n) == IF n < 0 THEN <<"-">> \o IntToTok(0 - n) ELSE IntToTok(n)

\* the tokens ISO, PSC of k parameter-space curves
RECURSIVE Loop_curve_tokens(_)
Loop_curve_tokens(k) ==
    IF k <= 0 THEN <<>> ELSE <<IntToTok(1), IntToTok(DEOf(2))>> \o Loop_curve_tokens(k - 1)

\* the tokens Type, E, Index, Flag, K and the curves of one edge
Loop_edge_tokens(k) ==
    <<IntToTok(0), IntToTok(DEOf(1)), IntToTok(1), IntToTok(1), SignedTok(k)>> \o Loop_curve_tokens(k)

\* n edges whose counts of curves are ka, kb, ka, ...
RECURSIVE Loop_edges_tokens(_, _, _)
Loop_edges_tokens(n, ka, kb) ==
    IF n <= 0 THEN <<>> ELSE Loop_edge_tokens(ka) \o Loop_edges_tokens(n - 1, kb, ka)

Loop_tokens(n, ka, kb) == <<IntToTok(508), SignedTok(n)>> \o Loop_edges_tokens(n, ka, kb)

\* the counts drawn: negative, zero and positive
LoopCounts == (0 - 1)..MaxCount

\* a plausible slip: a range is exhausted only at its end value, so that a
\* negative count is never exhausted
range_done_Exact(v, n) == v = n

\* for v in range(n): the loop is left when v has reached n; range(n) of a
\* zero or negative n is empty
range_done(v, n) == v >= n

InitLoop ==
    /\ kind = "Loop"
    /\ d = NoMeta
    /\ \E n \in LoopCounts : \E ka \in LoopCounts : \E kb \in LoopCounts :
       \E s \in 0..MaxShort : \E b \in 0..(Len(Loop_tokens(n, ka, kb)) - s - 1) :
          parameters = Replaced(SubSeq(Loop_tokens(n, ka, kb), 1,
                                       Len(Loop_tokens(n, ka, kb)) - s), <<b, BadTok>>)
    /\ pc = "start"
    /\ err = "none"
    /\ ent = NoEnt
    /\ frame = NoFrame
    /\ file = <<>>
    /\ entities = <<>>
    /\ phase = "none"
    /\ call = NoCall

\* int(self.parameters[i]): IndexError, ValueError or "none"
int_raises(p, i) == IF ~InRange(p, i) THEN "IndexError" ELSE PyInt(At(p, i)).err

\* bool(self.parameters[i]): IndexError or "none"
bool_raises(p, i) == IF ~InRange(p, i) THEN "IndexError" ELSE "none"

\* the first exception of the evaluations es, made in this order
first_raised(es) ==
    IF \A j \in DOMAIN es : es[j] = "none" THEN "none"
    ELSE es[CHOOSE j \in DOMAIN es : es[j] # "none" /\ \A k \in 1..(j - 1) : es[k] = "none"]

\* a statement at label at: it raises the first exception of es, or goes on
\* at label to with the local variables f
Loop_step(at, es, to, f) ==
    /\ kind = "Loop"
    /\ pc = at
    /\ \E e \in {first_raised(es)} :
          IF e # "none"
          THEN pc' = "done" /\ err' = e /\ frame' = frame
          ELSE pc' = to /\ err' = err /\ frame' = f
    /\ UNCHANGED <<kind, d, parameters, ent, file, entities, phase, call>>

\* self.n_edges = int(self.parameters[1]) ; self._edges = [] ; c = 0
Loop_enter ==
    Loop_step("start", <<int_raises(parameters, 1)>>, "for_i",
              [n_edges |-> INT(parameters, 1), edges |-> <<>>, c |-> 0, i |-> 0,
               edge |-> NoEnt, k1 |-> 0, j |-> 0, curves |-> <<>>])

\* for i in range(self.n_edges): edge = {...} ; curves = []
Loop_edge ==
    /\ pc = "for_i"
    /\ ~range_done(frame.i, frame.n_edges)
    /\ Loop_step("for_i",
                 <<int_raises(parameters, 2 + frame.c), int_raises(parameters, 3 + frame.c),
                   int_raises(parameters, 4 + frame.c), bool_raises(parameters, 5 + frame.c),
                   int_raises(parameters, 6 + frame.c)>>,
                 "for_j",
                 [frame EXCEPT !.edge = [type   |-> INT(parameters, 2 + frame.c),
                                         e1     |-> INT(parameters, 3 + frame.c),
                                         index1 |-> INT(parameters, 4 + frame.c),
                                         flag1  |-> Len(At(parameters, 5 + frame.c)) > 0,
                                         k1     |-> INT(parameters, 6 + frame.c)],
                               !.k1 = INT(parameters, 6 + frame.c),
                               !.j = 0,
                               !.curves = <<>>])

\* for j in range(edge["k1"]): curve = {...} ; curves.append(curve)
Loop_curve ==
    /\ pc = "for_j"
    /\ ~range_done(frame.j, frame.k1)
    /\ Loop_step("for_j",
                 <<bool_raises(parameters, 7 + frame.c + frame.j * 2),
                   int_raises(parameters, 8 + frame.c + frame.j * 2)>>,
                 "for_j",
                 [frame EXCEPT !.curves =
                                   Append(@, [iso |-> Len(At(parameters, 7 + frame.c + frame.j * 2)) > 0,
                                              psc |-> INT(parameters, 8 + frame.c + frame.j * 2)]),
                               !.j = @ + 1])

\* the inner loop is exhausted: c += 5 + 2 * edge["k1"] ;
\* edge["curves"] = curves ; self._edges.append(edge)
Loop_edge_end ==
    /\ pc = "for_j"
    /\ range_done(frame.j, frame.k1)
    /\ Loop_step("for_j", <<>>, "for_i",
                 [frame EXCEPT !.c = @ + 5 + 2 * frame.k1,
                               !.edges = Append(@, [edge |-> frame.edge, curves |-> frame.curves]),
                               !.i = @ + 1])

\* the outer loop is exhausted: the method returns
Loop_return ==
    /\ kind = "Loop"
    /\ pc = "for_i"
    /\ range_done(frame.i, frame.n_edges)
    /\ pc' = "done"
    /\ ent' = [parameters |-> parameters, n_edges |-> frame.n_edges, _edges |-> frame.edges]
    /\ UNCHANGED <<kind, d, parameters, err, frame, file, entities, phase, call>>

NextLoop ==
    \/ Loop_enter
    \/ Loop_edge
    \/ Loop_curve
    \/ Loop_edge_end
    \/ Loop_return

\* the method runs on its own: a statement that can run does run
SpecLoop == InitLoop /\ [][NextLoop]_vars /\ WF_vars(NextLoop)

(***************************************************************************)
(* C19.  Decoding terminates.                                              *)
(***************************************************************************)
\* the passes through the loops are bounded by the counts read from the
\* tokens; a zero or negative count gives no pass
IterationsBounded ==
    (kind = "Loop" /\ pc \in {"for_i", "for_j"}) =>
        /\ frame.i <= Max(0, frame.n_edges)
        /\ pc = "for_j" => (frame.i < frame.n_edges /\ frame.j <= Max(0, frame.k1))

\* C19: the decode of every token list ends, with an entity or an error,
\* after at most as many passes through each loop as the count read for it.
C19_Terminates == []IterationsBounded /\ <>(pc = "done")

\* the decode of two edges returned: the first has MaxCount curves, the
\* second a negative count of curves and no curve
C19_Witness ==
    /\ kind = "Loop"
    /\ pc = "done"
    /\ err = "none"
    /\ Len(ent._edges) = 2
    /\ Len(ent._edges[1].curves) = MaxCount
    /\ ent._edges[2].edge.k1 < 0
    /\ Len(ent._edges[2].curves) = 0

(***************************************************************************)
(* C21.  The legacy exponent in the REAL fields of every decoder.          *)
(***************************************************************************)
\* the decoders the claim names
RealKinds ==
    {"Point", "Line", "Transformation", "ConicArc", "Surface_of_Revolution",
     "Tabulated_Cylinder", "CircularArc", "Color", "Singular_Subgfigure_Instance",
     "VertexList", "RationalBSplineCurve", "RationalBSplineSurface"}

\* position i (Python) of the list of kind k is a REAL row of its Parameter
\* Data table
REAL_position(k, i) ==
    CASE k = "Point"                  -> i >= 1 /\ i <= 3
      [] k = "Line"                   -> i >= 1 /\ i <= 6
      [] k = "Transformation"         -> i >= 1 /\ i <= 12
      [] k = "ConicArc"               -> i >= 1 /\ i <= 12
      [] k = "Surface_of_Revolution"  -> i >= 3 /\ i <= 4
      [] k = "Tabulated_Cylinder"     -> i >= 2 /\ i <= 4
      [] k = "CircularArc"            -> i >= 1 /\ i <= 7
      [] k = "Color"                  -> i >= 1 /\ i <= 3
      [] k = "Singular_Subgfigure_Instance" -> i >= 2 /\ i <= 5
      [] k = "VertexList"             -> i >= 2
      [] k = "RationalBSplineCurve"   -> i >= 7
      [] k = "RationalBSplineSurface" -> i >= 10
      [] OTHER                        -> FALSE

\* the attributes of an entity other than the token list it keeps
Fields(e) == [f \in (DOMAIN e) \ {"parameters"} |-> e[f]]

\* the decode r of a list and the decode that ended with e0 and entity ent0
\* both succeed with the same field values, or both fail
SameDecode(r, e0, ent0) ==
    /\ (r.err = "none") <=> (e0 = "none")
    /\ (r.err = "none" /\ e0 = "none") => Fields(r.ent) = Fields(ent0)

\* the positions of the running call's list that are REAL fields of its
\* kind and hold the legacy (D) form of 1.2E3
LegacyFields ==
    {i \in 1..(Len(parameters) - 1) :
        REAL_position(kind, i) /\ At(parameters, i) = LegacyTok}

\* C21 as claimed: for every decoder the claim names, the decode of a list
\* whose REAL field holds the D-exponent token succeeds exactly when the
\* decode of the list with the equivalent E-exponent token in its place
\* does, and then with the same decoded field values.
C21_Claimed ==
    (Done /\ kind \in RealKinds) =>
        \A i \in LegacyFields :
            SameDecode(add_parameters(kind, d, Replaced(parameters, <<i, StandardTok>>)),
                       err, ent)

(***************************************************************************)
(* C22.  Reference fields are integers converted from their tokens.        *)
(***************************************************************************)
\* the values of the list xs of references with the positions (Python) of
\* the tokens they were taken from, the first from position first
RefList(xs, first) == [j \in 1..Len(xs) |-> [at |-> first + j - 1, val |-> xs[j]]]

\* the reference fields that the entity e of kind k stores
References(k, e) ==
    CASE k = "Composite_Curve" -> RefList(e.curves, 2)
      [] k = "Curve_On_A_Parametric_Surface" ->
            RefList(<<e.surface_pointer, e.curve_pointer, e.mapping>>, 2)
      [] k = "Trimmed_Surface" ->
            RefList(<<e.surface_pointer>>, 1) \o RefList(<<e.OuterBound>>, 4)
                \o RefList(e.inner_curve_boundary, 5)
      [] k = "Bounded_Surface" -> RefList(<<e.surface_pointer>>, 2) \o RefList(e.B, 4)
      [] k = "Subfigure" -> RefList(e.pointers, 4)
      [] k = "Face" -> RefList(<<e.surf_pointer>>, 1) \o RefList(e.loop_pointers, 4)
      [] k = "Boundary" ->
            RefList(<<e.surface_pointer>>, 3) \o RefList(e.space_curves, 5)
      [] k = "Surface_of_Revolution" -> RefList(<<e.axis, e.surface>>, 1)
      [] k = "Tabulated_Cylinder" -> RefList(<<e.curve>>, 1)
      [] k = "Singular_Subgfigure_Instance" -> RefList(<<e.pointer>>, 1)
      [] OTHER -> <<>>

\* two values are the same lookup key: an integer and a token never are
SameKey(a, b) == ToString(a) = ToString(b)

\* C22 as claimed: every reference field of an entity that decoded is the
\* integer value of the token it was taken from, never the token itself,
\* the inner boundaries of a Trimmed_Surface and the curves of a Boundary
\* included.
C22_Claimed ==
    Returned =>
        \A j \in 1..Len(References(kind, ent)) :
            SameKey(References(kind, ent)[j].val,
                    INT(parameters, References(kind, ent)[j].at))

====
